---- MODULE Spec2Model ----
(***************************************************************************)
(* A model of the emissions engine of ProjectZero:                         *)
(*   - backend/data_normalization_pipeline.py  (DataNormalizationPipeline) *)
(*   - backend/app/core/calculations/ghg_calculator.py (UnitConverter,     *)
(*     the scope engines and GHGProtocolCalculator.calculate)              *)
(*                                                                         *)
(* Numbers.  The Python code works on floats and Decimals; the model works *)
(* on exact fixed-point integers:                                          *)
(*   scope_1, scope_2, scope_3, totals      hundredths of a ton CO2e       *)
(*   electricity_kwh / _mwh / _gwh          whole kWh / MWh / GWh          *)
(*   natural_gas_therms                     ten-thousandths of a therm     *)
(*   natural_gas_m3, natural_gas_mmbtu      whole m3 / MMBtu               *)
(*   process gas amounts                    whole kg                       *)
(*   tier scores, quality penalties         tenths of a point              *)
(*   data_quality_score                     hundredths of a point          *)
(* round(x, 2) is modelled as round-half-even on the exact value.          *)
(* The Decimals of ghg_calculator.py are exact fractions in lowest terms.  *)
(*                                                                         *)
(* Dictionaries are functions whose DOMAIN is the set of keys present, so  *)
(* an absent key and a key holding None are different things, as in Python.*)
(***************************************************************************)
EXTENDS Integers, Sequences, FiniteSets, TLC

(***************************************************************************)
(* Python values                                                           *)
(***************************************************************************)
\* Python's None, encoded inside the integer value domain (no input value,
\* and no computed value, ever equals it).
None == -1000000000

\* The empty dict {}.
EmptyDict == [k \in {} |-> 0]

\* `k in d`
Has(d, k) == k \in DOMAIN d

\* d.get(k, default)
Get(d, k, default) == IF k \in DOMAIN d THEN d[k] ELSE default

\* d.get(k): None when the key is absent
GetOrNone(d, k) == Get(d, k, None)

\* d[k] = v
Put(d, k, v) == [x \in (DOMAIN d) \cup {k} |-> IF x = k THEN v ELSE d[x]]

\* del d[k]
Del(d, k) == [x \in (DOMAIN d) \ {k} |-> d[x]]

\* bool(v) of a number or None: None and 0 are falsy
Truthy(v) == v # None /\ v # 0

\* exact |n|
Abs(n) == IF n < 0 THEN -n ELSE n

\* round(n / d) to the nearest integer, ties to even (Python's round);
\* d # 0.  \div is floor division and % is non-negative for a positive
\* divisor, so the same code serves negative numerators.
RoundHalfEvenPos(n, d) ==
    LET q == n \div d
        r == n % d
    IN  IF 2 * r < d THEN q
        ELSE IF 2 * r > d THEN q + 1
        ELSE IF q % 2 = 0 THEN q ELSE q + 1

RoundDiv(n, d) == IF d > 0 THEN RoundHalfEvenPos(n, d) ELSE RoundHalfEvenPos(-n, -d)

(***************************************************************************)
(* str.lower() and the `in` test on strings.  A string is a sequence of    *)
(* one-character strings.                                                  *)
(***************************************************************************)
UpperToLower ==
    [c \in {"A","B","C","D","E","F","G","H","I","J","K","L","M",
            "N","O","P","Q","R","S","T","U","V","W","X","Y","Z"} |->
        CASE c = "A" -> "a" [] c = "B" -> "b" [] c = "C" -> "c" [] c = "D" -> "d"
          [] c = "E" -> "e" [] c = "F" -> "f" [] c = "G" -> "g" [] c = "H" -> "h"
          [] c = "I" -> "i" [] c = "J" -> "j" [] c = "K" -> "k" [] c = "L" -> "l"
          [] c = "M" -> "m" [] c = "N" -> "n" [] c = "O" -> "o" [] c = "P" -> "p"
          [] c = "Q" -> "q" [] c = "R" -> "r" [] c = "S" -> "s" [] c = "T" -> "t"
          [] c = "U" -> "u" [] c = "V" -> "v" [] c = "W" -> "w" [] c = "X" -> "x"
          [] c = "Y" -> "y" [] c = "Z" -> "z"]

LowerChar(c) == IF c \in DOMAIN UpperToLower THEN UpperToLower[c] ELSE c

\* s.lower()
Lower(s) == [i \in 1..Len(s) |-> LowerChar(s[i])]

\* `needle in hay` for strings: needle occurs as a contiguous substring
Contains(hay, needle) ==
    \E i \in 0..(Len(hay) - Len(needle)) :
        \A j \in 1..Len(needle) : hay[i + j] = needle[j]

(***************************************************************************)
(* DataNormalizationPipeline: the state of one instance and of one call of *)
(* run_pipeline.                                                           *)
(***************************************************************************)
VARIABLES
    raw_data,            \* self.raw_data: "facilities_raw", optional "scope_3_raw_data"
    normalized_data,     \* self.normalized_data: None until run_pipeline compiles it
    normalization_log,   \* self.normalization_log
    pc,                  \* position of run_pipeline
    facilities,          \* the local `facilities` (the working copy)
    idx,                 \* index of the facility a stage's loop is at
    totals,              \* the local `totals`
    quality_metrics,     \* the local `quality_metrics`
    error,               \* the exception that ended the call: its type ("" when
                         \* none) and the position of run_pipeline it was raised at
    calc,                \* one call of the calculation engine (SpecCalc)
    other                \* a second DataNormalizationPipeline built on the same
                         \* raw_data object (SpecTwo): its fields and its position

vars == <<raw_data, normalized_data, normalization_log, pc, facilities, idx,
          totals, quality_metrics, error, calc, other>>

pipeVars == <<raw_data, normalized_data, normalization_log, pc, facilities, idx,
              totals, quality_metrics, error, other>>

\* No exception, and the exception of type e raised at the current position.
NoError == [type |-> "", at |-> ""]
Raised(e) == IF e = "" THEN NoError ELSE [type |-> e, at |-> pc]

\* log_action(action, details, severity): the entry appended.  `fac` is the
\* facility id the details start with ("" for a stage-level entry) and
\* `what` the field or quantity the details speak of.  The timestamp is not
\* modelled.
LogEntry(action, fac, what, severity) ==
    [action |-> action, fac |-> fac, what |-> what, severity |-> severity]

\* log_action putting the entry in front of the log
log_action_in_front(log, action, fac, what, severity) ==
    <<LogEntry(action, fac, what, severity)>> \o log

log_action(log, action, fac, what, severity) ==
    Append(log, LogEntry(action, fac, what, severity))

(***************************************************************************)
(* Step 1: normalize_units.  Each conversion of the loop body maps a       *)
(* loop-body state [fac, log, err] to the next one; a conversion whose     *)
(* operand is None raises TypeError and the rest of the body is skipped.   *)
(***************************************************************************)
MWH_TO_KWH == 1000
GWH_TO_KWH == 1000000
\* 1 m3 = 0.0353 therms, in ten-thousandths of a therm
M3_TO_THERMS_E4 == 353
\* 1 MMBtu = 10 therms, in ten-thousandths of a therm
MMBTU_TO_THERMS_E4 == 100000

\* ConvertField without its `del facility[src]`.
ConvertFieldKeepingSource(s, src, dst, factor) ==
    IF s.err # "" \/ ~Has(s.fac, src) THEN s
    ELSE IF s.fac[src] = None THEN [s EXCEPT !.err = "TypeError"]
    ELSE [fac |-> Put(s.fac, dst, s.fac[src] * factor),
          log |-> log_action(s.log, "UNIT_CONVERSION", s.fac["facility_id"], src, "INFO"),
          err |-> ""]

\* One `if '<src>' in facility:` block of normalize_units.
ConvertField(s, src, dst, factor) ==
    IF s.err # "" \/ ~Has(s.fac, src) THEN s
    ELSE IF s.fac[src] = None THEN [s EXCEPT !.err = "TypeError"]
    ELSE [fac |-> Del(Put(s.fac, dst, s.fac[src] * factor), src),
          log |-> log_action(s.log, "UNIT_CONVERSION", s.fac["facility_id"], src, "INFO"),
          err |-> ""]

\* The nested natural gas record: {"amount": a, "unit": u}.  Every
\* natural_gas value of the model is such a dict.
ConvertNestedGas(s) ==
    IF s.err # "" \/ ~Has(s.fac, "natural_gas") THEN s
    ELSE IF s.fac["natural_gas"]["unit"] = "therms"
         THEN [s EXCEPT !.fac = Del(Put(s.fac, "natural_gas_therms",
                                        s.fac["natural_gas"]["amount"]),
                                    "natural_gas")]
         ELSE s

\* The body of `for facility in facilities:` of normalize_units.
NormalizeFacility(f, log) ==
    LET s0 == [fac |-> f, log |-> log, err |-> ""]
        s1 == ConvertField(s0, "electricity_mwh", "electricity_kwh", MWH_TO_KWH)
        s2 == ConvertField(s1, "electricity_gwh", "electricity_kwh", GWH_TO_KWH)
        s3 == ConvertField(s2, "natural_gas_m3", "natural_gas_therms", M3_TO_THERMS_E4)
        s4 == ConvertField(s3, "natural_gas_mmbtu", "natural_gas_therms", MMBTU_TO_THERMS_E4)
    IN  ConvertNestedGas(s4)

\* After a stage's loop body has run on facility idx without raising.
NextInLoop(loopPc, afterPc) == IF idx < Len(facilities) THEN loopPc ELSE afterPc

\* normalize_units up to its loop: the stage entry is logged and the raw
\* facilities are deep-copied.
normalize_units_begin ==
    /\ pc = "normalize_units"
    /\ normalization_log' = log_action(normalization_log, "UNIT_NORMALIZATION", "", "start", "INFO")
    /\ facilities' = raw_data["facilities_raw"]
    /\ idx' = 1
    /\ pc' = IF Len(raw_data["facilities_raw"]) = 0 THEN "fill_missing_scope_data"
             ELSE "normalize_loop"
    /\ UNCHANGED <<raw_data, normalized_data, totals, quality_metrics, error, calc, other>>

\* One iteration of the loop of normalize_units.
normalize_units_facility ==
    /\ pc = "normalize_loop"
    /\ LET s == NormalizeFacility(facilities[idx], normalization_log)
       IN  /\ facilities' = [facilities EXCEPT ![idx] = s.fac]
           /\ normalization_log' = s.log
           /\ error' = Raised(s.err)
           /\ pc' = IF s.err # "" THEN "raised"
                    ELSE NextInLoop("normalize_loop", "fill_missing_scope_data")
           /\ idx' = IF s.err # "" THEN idx
                     ELSE IF idx < Len(facilities) THEN idx + 1 ELSE 1
    /\ UNCHANGED <<raw_data, normalized_data, totals, quality_metrics, calc, other>>

(***************************************************************************)
(* Step 2: fill_missing_scope_data.  The loop body is four consecutive     *)
(* blocks (scope 1, scope 2, scope 3, partial year); each is one step of   *)
(* the model, taken in program order on facility idx.                      *)
(***************************************************************************)
\* EF_NATURAL_GAS = 0.0053 tons CO2e/therm, in ten-thousandths
EF_NATURAL_GAS_E4 == 53
\* EF_ELECTRICITY_DEFAULT = 0.000389 tons CO2e/kWh, in millionths
EF_ELECTRICITY_DEFAULT_E6 == 389
\* 15% of the nameplate mass escapes (85% abatement), in hundredths
ESCAPE_E2 == 15
\* (scope_1 + scope_2) * 0.45, in hundredths
SCOPE_3_SHARE_E2 == 45

\* GWP_VALUES.get(gas, 1)
GWP_VALUES ==
    [gas \in {"NF3", "SF6", "CF4", "CHF3", "C2F6", "C4F8"} |->
        CASE gas = "NF3" -> 16100 [] gas = "SF6" -> 23500 [] gas = "CF4" -> 6630
          [] gas = "CHF3" -> 12400 [] gas = "C2F6" -> 11100 [] gas = "C4F8" -> 8600]

GWP(gas) == IF gas \in DOMAIN GWP_VALUES THEN GWP_VALUES[gas] ELSE 1

\* The loop over facility['process_gases_kg'].items(): the sum of
\* amount_kg * 0.15 * gwp / 1000 tons, in units of 1e-8 ton.
RECURSIVE ProcessGasE8(_)
ProcessGasE8(gases) ==
    IF DOMAIN gases = {} THEN 0
    ELSE LET gas == CHOOSE g \in DOMAIN gases : TRUE
         IN  gases[gas] * ESCAPE_E2 * GWP(gas) * 1000 + ProcessGasE8(Del(gases, gas))

\* Scope1EstimateE8 without the process gases.
Scope1EstimateGasOnly(f) ==
    IF Truthy(GetOrNone(f, "natural_gas_therms"))
    THEN f["natural_gas_therms"] * EF_NATURAL_GAS_E4 ELSE 0

\* scope_1_estimate of a facility, in units of 1e-8 ton.
Scope1EstimateE8(f) ==
    (IF Truthy(GetOrNone(f, "natural_gas_therms"))
        THEN f["natural_gas_therms"] * EF_NATURAL_GAS_E4 ELSE 0)
    + (IF Has(f, "process_gases_kg") /\ DOMAIN f["process_gases_kg"] # {}
        THEN ProcessGasE8(f["process_gases_kg"]) ELSE 0)

\* grid_factors, in dict order, in millionths of a ton CO2e per kWh
grid_factors ==
    << <<<<"U","S","A">>, 389>>,
       <<<<"G","e","r","m","a","n","y">>, 310>>,
       <<<<"T","a","i","w","a","n">>, 502>>,
       <<<<"S","o","u","t","h"," ","K","o","r","e","a">>, 405>>,
       <<<<"C","h","i","n","a">>, 555>>,
       <<<<"S","i","n","g","a","p","o","r","e">>, 392>>,
       <<<<"J","a","p","a","n">>, 463>>,
       <<<<"I","r","e","l","a","n","d">>, 285>>,
       <<<<"M","a","l","a","y","s","i","a">>, 658>> >>

\* `country in address or country.lower() in address.lower()`
CountryMatches(country, address) ==
    Contains(address, country) \/ Contains(Lower(address), Lower(country))

\* The loop over grid_factors without its `break`: the last match wins.
GridFactorLastMatch(address) ==
    LET hits == {i \in 1..Len(grid_factors) : CountryMatches(grid_factors[i][1], address)}
    IN  IF hits = {} THEN EF_ELECTRICITY_DEFAULT_E6
        ELSE grid_factors[CHOOSE i \in hits : \A j \in hits : i >= j][2]

\* The `for country, factor in grid_factors.items(): ... break` loop.
GridFactorE6(address) ==
    LET hits == {i \in 1..Len(grid_factors) : CountryMatches(grid_factors[i][1], address)}
    IN  IF hits = {} THEN EF_ELECTRICITY_DEFAULT_E6
        ELSE grid_factors[CHOOSE i \in hits : \A j \in hits : i <= j][2]

\* Lines 128-151: `if facility.get('scope_1') is None:`
EstimateScope1(f, log) ==
    IF GetOrNone(f, "scope_1") # None THEN [fac |-> f, log |-> log, err |-> ""]
    ELSE [fac |-> Put(Put(f, "scope_1", RoundDiv(Scope1EstimateE8(f), 1000000)),
                      "scope_1_estimated", TRUE),
          log |-> log_action(log, "ESTIMATION", f["facility_id"], "scope_1", "WARNING"),
          err |-> ""]

\* Lines 154-184: `if facility.get('scope_2') is None:` and, inside it,
\* `if facility.get('electricity_kwh'):`
EstimateScope2(f, log) ==
    IF GetOrNone(f, "scope_2") = None /\ Truthy(GetOrNone(f, "electricity_kwh"))
    THEN [fac |-> Put(Put(f, "scope_2",
                          RoundDiv(f["electricity_kwh"] * GridFactorE6(Get(f, "address", <<>>)),
                                   10000)),
                      "scope_2_estimated", TRUE),
          log |-> log_action(log, "ESTIMATION", f["facility_id"], "scope_2", "WARNING"),
          err |-> ""]
    ELSE [fac |-> f, log |-> log, err |-> ""]

\* Lines 187-197: `if facility.get('scope_3') is None:`; the sum
\* scope_1 + scope_2 raises TypeError when either operand is None.
EstimateScope3(f, log) ==
    IF GetOrNone(f, "scope_3") # None THEN [fac |-> f, log |-> log, err |-> ""]
    ELSE LET scope_1 == Get(f, "scope_1", 0)
             scope_2 == Get(f, "scope_2", 0)
         IN  IF scope_1 = None \/ scope_2 = None
             THEN [fac |-> f, log |-> log, err |-> "TypeError"]
             ELSE [fac |-> Put(Put(f, "scope_3",
                                   RoundDiv((scope_1 + scope_2) * SCOPE_3_SHARE_E2, 100)),
                               "scope_3_estimated", TRUE),
                   log |-> log_action(log, "ESTIMATION", f["facility_id"], "scope_3", "WARNING"),
                   err |-> ""]

\* One of lines 204-206: facility['scope_k_annualized'] = facility['scope_k']
\* * annualization_factor.  The unrounded product is kept as the fraction
\* num/den.  facility['scope_k'] raises KeyError when the key is absent and
\* the product raises TypeError when the value is None.
AnnualizeScope(s, k, months) ==
    IF s.err # "" THEN s
    ELSE IF ~Has(s.fac, k) THEN [s EXCEPT !.err = "KeyError"]
    ELSE IF s.fac[k] = None THEN [s EXCEPT !.err = "TypeError"]
    ELSE [s EXCEPT !.fac = Put(s.fac, k \o "_annualized",
                               [num |-> s.fac[k] * 12, den |-> months])]

\* One of lines 215-217: facility['scope_k'] = round(facility['scope_k_annualized'], 2)
UseAnnualized(f, k) ==
    Put(f, k, RoundDiv(f[k \o "_annualized"].num, f[k \o "_annualized"].den))

\* Lines 200-217: `if facility.get('operational_months') and
\* facility['operational_months'] < 12:`
Annualize(f, log) ==
    LET months == GetOrNone(f, "operational_months")
    IN  IF ~(Truthy(months) /\ months < 12) THEN [fac |-> f, log |-> log, err |-> ""]
        ELSE LET s0 == [fac |-> f, log |-> log, err |-> ""]
                 s1 == AnnualizeScope(s0, "scope_1", months)
                 s2 == AnnualizeScope(s1, "scope_2", months)
                 s3 == AnnualizeScope(s2, "scope_3", months)
             IN  IF s3.err # "" THEN s3
                 ELSE [fac |-> UseAnnualized(UseAnnualized(UseAnnualized(s3.fac,
                                  "scope_1"), "scope_2"), "scope_3"),
                       log |-> log_action(log, "ANNUALIZATION", f["facility_id"],
                                          "operational_months", "INFO"),
                       err |-> ""]

\* A block of the loop body of fill_missing_scope_data applied to facility
\* idx: its effect on the working copy and the log, and where control goes.
FillStep(s, nextPc, nextIdx) ==
    /\ facilities' = [facilities EXCEPT ![idx] = s.fac]
    /\ normalization_log' = s.log
    /\ error' = Raised(s.err)
    /\ pc' = IF s.err # "" THEN "raised" ELSE nextPc
    /\ idx' = IF s.err # "" THEN idx ELSE nextIdx
    /\ UNCHANGED <<raw_data, normalized_data, totals, quality_metrics, calc, other>>

\* fill_missing_scope_data up to its loop (line 108).
fill_missing_scope_data_begin ==
    /\ pc = "fill_missing_scope_data"
    /\ normalization_log' = log_action(normalization_log, "MISSING_DATA", "", "start", "INFO")
    /\ idx' = 1
    /\ pc' = IF Len(facilities) = 0 THEN "calculate_totals" ELSE "estimate_scope_1"
    /\ UNCHANGED <<raw_data, normalized_data, facilities, totals, quality_metrics,
                   error, calc, other>>

estimate_scope_1 ==
    /\ pc = "estimate_scope_1"
    /\ FillStep(EstimateScope1(facilities[idx], normalization_log), "estimate_scope_2", idx)

estimate_scope_2 ==
    /\ pc = "estimate_scope_2"
    /\ FillStep(EstimateScope2(facilities[idx], normalization_log), "estimate_scope_3", idx)

estimate_scope_3 ==
    /\ pc = "estimate_scope_3"
    /\ FillStep(EstimateScope3(facilities[idx], normalization_log), "annualize", idx)

annualize ==
    /\ pc = "annualize"
    /\ FillStep(Annualize(facilities[idx], normalization_log),
                NextInLoop("estimate_scope_1", "calculate_totals"),
                IF idx < Len(facilities) THEN idx + 1 ELSE 1)

(***************************************************************************)
(* Step 3: calculate_totals.                                               *)
(***************************************************************************)
\* sum(f.get(k, 0) for f in facilities) over facilities[i..]: [sum, err].
\* 0 + None (or number + None) raises TypeError.
RECURSIVE SumScope(_, _, _)
SumScope(facs, k, i) ==
    IF i > Len(facs) THEN [sum |-> 0, err |-> ""]
    ELSE LET v == Get(facs[i], k, 0)
             rest == SumScope(facs, k, i + 1)
         IN  IF v = None \/ rest.err # "" THEN [sum |-> 0, err |-> "TypeError"]
             ELSE [sum |-> v + rest.sum, err |-> ""]

\* The categories calculate_totals reads from scope_3_raw_data (lines 237-270).
BreakdownCategories == {1, 3, 4, 5, 6, 7}

\* The keys of scope_3_exclusions (lines 273-283).
ExcludedCategories == {2, 8, 9, 10, 11, 12, 13, 14, 15}

CategoryKey ==
    [n \in 1..15 |->
        CASE n = 1 -> "category_1" [] n = 2 -> "category_2" [] n = 3 -> "category_3"
          [] n = 4 -> "category_4" [] n = 5 -> "category_5" [] n = 6 -> "category_6"
          [] n = 7 -> "category_7" [] n = 8 -> "category_8" [] n = 9 -> "category_9"
          [] n = 10 -> "category_10" [] n = 11 -> "category_11" [] n = 12 -> "category_12"
          [] n = 13 -> "category_13" [] n = 14 -> "category_14" [] n = 15 -> "category_15"]

\* self.raw_data.get('scope_3_raw_data', {})
Scope3Data(raw) == Get(raw, "scope_3_raw_data", EmptyDict)

\* The categories for which `'category_n' in scope_3_data` holds.
SuppliedBreakdown(scope_3_data) ==
    {n \in BreakdownCategories : Has(scope_3_data, CategoryKey[n])}

RECURSIVE SumOver(_, _)
SumOver(f, S) ==
    IF S = {} THEN 0
    ELSE LET x == CHOOSE y \in S : TRUE IN f[x] + SumOver(f, S \ {x})

\* Scope3Total taking the sum over the facilities instead.
Scope3TotalOfFacilities(scope_3_breakdown, total_scope_3) == total_scope_3

\* Lines 286 and 312: the company Scope-3 total is recomputed from the
\* category breakdown; total_scope_3, the sum over the facilities (line
\* 227), is not used.
Scope3Total(scope_3_breakdown, total_scope_3) ==
    SumOver(scope_3_breakdown, DOMAIN scope_3_breakdown)

\* The body of calculate_totals after its first log entry: [totals, err].
\* cat['total_emissions_estimate'] raises KeyError on an entry without it.
CalculateTotals(facs, raw) ==
    LET s1 == SumScope(facs, "scope_1", 1)
        s2 == SumScope(facs, "scope_2", 1)
        s3 == SumScope(facs, "scope_3", 1)
        scope_3_data == Scope3Data(raw)
        cats == SuppliedBreakdown(scope_3_data)
    IN  IF s1.err # "" THEN [totals |-> EmptyDict, err |-> s1.err]
        ELSE IF s2.err # "" THEN [totals |-> EmptyDict, err |-> s2.err]
        ELSE IF s3.err # "" THEN [totals |-> EmptyDict, err |-> s3.err]
        ELSE IF \E n \in cats : ~Has(scope_3_data[CategoryKey[n]], "total_emissions_estimate")
             THEN [totals |-> EmptyDict, err |-> "KeyError"]
        ELSE LET scope_3_breakdown ==
                     [n \in cats |-> scope_3_data[CategoryKey[n]]["total_emissions_estimate"]]
             IN  [totals |->
                    [scope_1_total |-> s1.sum,
                     scope_2_total |-> s2.sum,
                     scope_3_total |-> Scope3Total(scope_3_breakdown, s3.sum),
                     scope_3_breakdown |-> scope_3_breakdown,
                     scope_3_exclusions |-> ExcludedCategories,
                     scope_3_methodologies |-> cats,
                     facilities_normalized |-> facs],
                  err |-> ""]

calculate_totals ==
    /\ pc = "calculate_totals"
    /\ LET r == CalculateTotals(facilities, raw_data)
           log1 == log_action(normalization_log, "CALCULATION", "", "start", "INFO")
       IN  /\ totals' = r.totals
           /\ error' = Raised(r.err)
           /\ pc' = IF r.err # "" THEN "raised" ELSE "assess_data_quality"
           /\ normalization_log' =
                IF r.err # "" THEN log1
                ELSE log_action(log_action(log_action(log_action(log1,
                        "CALCULATION", "", "scope_1_total", "INFO"),
                        "CALCULATION", "", "scope_2_total", "INFO"),
                        "CALCULATION", "", "scope_3_total", "INFO"),
                        "CALCULATION", "", "total_emissions", "INFO")
    /\ UNCHANGED <<raw_data, normalized_data, facilities, idx, quality_metrics, calc, other>>

(***************************************************************************)
(* Step 4: assess_data_quality.                                            *)
(***************************************************************************)
\* tier_scores, in tenths of a point
tier_scores ==
    [t \in {"Tier 1", "Tier 2", "Tier 3", "Tier 4"} |->
        CASE t = "Tier 1" -> 50 [] t = "Tier 2" -> 35 [] t = "Tier 3" -> 20
          [] t = "Tier 4" -> 10]

\* tier_scores.get(tier, 2.0)
TierScore(tier) == IF tier \in DOMAIN tier_scores THEN tier_scores[tier] ELSE 20

\* `score -= 0.5`, in tenths
ESTIMATE_PENALTY == 5

\* `if facility.get(flag): score -= 0.5`
Penalize(score, f, flag) ==
    IF Get(f, flag, FALSE) THEN score - ESTIMATE_PENALTY ELSE score

\* FacilityScore with one penalty however many scopes are estimated.
FacilityScoreOnePenalty(f) ==
    TierScore(Get(f, "data_quality", "Tier 3"))
    - (IF \E k \in {"scope_1_estimated", "scope_2_estimated", "scope_3_estimated"} :
              Get(f, k, FALSE)
       THEN ESTIMATE_PENALTY ELSE 0)

\* Lines 337-346: the score of one facility, in tenths.
FacilityScore(f) ==
    Penalize(Penalize(Penalize(TierScore(Get(f, "data_quality", "Tier 3")),
        f, "scope_1_estimated"), f, "scope_2_estimated"), f, "scope_3_estimated")

\* The `for facility in facilities:` loop of assess_data_quality from
\* facility i on, given the accumulators: [total_emissions,
\* weighted_score_sum, err].
RECURSIVE QualityLoop(_, _, _, _)
QualityLoop(facs, i, total_emissions, weighted_score_sum) ==
    IF i > Len(facs)
    THEN [total_emissions |-> total_emissions,
          weighted_score_sum |-> weighted_score_sum, err |-> ""]
    ELSE LET f == facs[i]
             s1 == Get(f, "scope_1", 0)
             s2 == Get(f, "scope_2", 0)
             s3 == Get(f, "scope_3", 0)
         IN  IF s1 = None \/ s2 = None \/ s3 = None
             THEN [total_emissions |-> total_emissions,
                   weighted_score_sum |-> weighted_score_sum, err |-> "TypeError"]
             ELSE QualityLoop(facs, i + 1, total_emissions + (s1 + s2 + s3),
                              weighted_score_sum + (s1 + s2 + s3) * FacilityScore(f))

\* Line 350 and the round of line 368: the score in hundredths.
OverallQuality(total_emissions, weighted_score_sum) ==
    IF total_emissions > 0 THEN RoundDiv(weighted_score_sum * 10, total_emissions)
    ELSE 250

\* f.get('scope_1_estimated') or f.get('scope_2_estimated') or f.get('scope_3_estimated')
AnyEstimated(f) ==
    \/ Get(f, "scope_1_estimated", FALSE)
    \/ Get(f, "scope_2_estimated", FALSE)
    \/ Get(f, "scope_3_estimated", FALSE)

\* The body of assess_data_quality after its first log entry:
\* [metrics, err, logged], logged telling whether the two result entries of
\* lines 356-365 were appended before the call ended.  Line 370 divides by
\* len(facilities) without the `if facilities` guard of line 354.
\* reporting_completeness is in hundredths.
AssessDataQuality(facs) ==
    LET acc == QualityLoop(facs, 1, 0, 0)
        complete_facilities ==
            Cardinality({i \in 1..Len(facs) : Get(facs[i], "reporting_completeness", 0) > 75})
        estimated == Cardinality({i \in 1..Len(facs) : AnyEstimated(facs[i])})
    IN  IF acc.err # "" THEN [metrics |-> EmptyDict, err |-> acc.err, logged |-> FALSE]
        ELSE IF Len(facs) = 0
             THEN [metrics |-> EmptyDict, err |-> "ZeroDivisionError", logged |-> TRUE]
        ELSE [metrics |->
                [data_quality_score |->
                     OverallQuality(acc.total_emissions, acc.weighted_score_sum),
                 reporting_completeness |-> [num |-> complete_facilities, den |-> Len(facs)],
                 estimated_data_percentage |-> [num |-> estimated, den |-> Len(facs)]],
              err |-> "", logged |-> TRUE]

assess_data_quality ==
    /\ pc = "assess_data_quality"
    /\ LET r == AssessDataQuality(facilities)
           log1 == log_action(normalization_log, "DATA_QUALITY", "", "start", "INFO")
       IN  /\ quality_metrics' = r.metrics
           /\ error' = Raised(r.err)
           /\ pc' = IF r.err # "" THEN "raised" ELSE "compile"
           /\ normalization_log' =
                IF r.logged
                THEN log_action(log_action(log1,
                        "DATA_QUALITY", "", "overall_quality", "INFO"),
                        "DATA_QUALITY", "", "overall_completeness", "INFO")
                ELSE log1
    /\ UNCHANGED <<raw_data, normalized_data, facilities, idx, totals, calc, other>>

(***************************************************************************)
(* run_pipeline, lines 392-413: the normalized dataset is compiled from    *)
(* the raw data, the totals and the quality metrics.                       *)
(***************************************************************************)
\* {**self.raw_data, 'facilities': ..., ...}
Compile(raw, tot, qm) ==
    Put(Put(Put(Put(Put(Put(Put(Put(Put(Put(raw,
        "facilities", tot.facilities_normalized),
        "scope_1_total", tot.scope_1_total),
        "scope_2_total", tot.scope_2_total),
        "scope_3_total", tot.scope_3_total),
        "scope_3_breakdown", tot.scope_3_breakdown),
        "scope_3_exclusions", tot.scope_3_exclusions),
        "scope_3_methodologies", tot.scope_3_methodologies),
        "data_quality_score", qm.data_quality_score),
        "overall_reporting_completeness", qm.reporting_completeness),
        "estimated_data_percentage", qm.estimated_data_percentage)

run_pipeline_return ==
    /\ pc = "compile"
    /\ normalized_data' = Compile(raw_data, totals, quality_metrics)
    /\ pc' = "done"
    /\ UNCHANGED <<raw_data, normalization_log, facilities, idx, totals,
                   quality_metrics, error, calc, other>>

(***************************************************************************)
(* The raw datasets run_pipeline is checked on.  Every facility carries a  *)
(* facility_id; the other fields are drawn from the sets below.            *)
(***************************************************************************)
\* The longest facilities_raw list of the mixed family.
MaxFacilities == 2

\* {}, or {k: v} for each v in vals
Opt(k, vals) == {EmptyDict} \cup {k :> v : v \in vals}

\* Every merge of one dict of A with one dict of B (their keys are disjoint).
Merge2(A, B) == {a @@ b : a \in A, b \in B}

ADDR_USA == <<"A","u","s","t","i","n",","," ","U","S","A">>
ADDR_TAIWAN_LOWER == <<"h","s","i","n","c","h","u"," ","t","a","i","w","a","n">>
ADDR_PARIS == <<"P","a","r","i","s">>

\* A facility measured in full: 100.00, 50.00 and 20.00 tons.
Measured == ("scope_1" :> 10000) @@ ("scope_2" :> 5000) @@ ("scope_3" :> 2000)

\* Family U: the unit fields, in every combination, on a facility whose
\* scope_1 and scope_2 are measured or None.
ElectricityFields ==
    Merge2(Opt("electricity_kwh", {2000}),
    Merge2(Opt("electricity_mwh", {None, 100}), Opt("electricity_gwh", {1})))

NestedGas ==
    { ("amount" :> 5000000) @@ ("unit" :> "therms"),
      ("amount" :> 7) @@ ("unit" :> "m3") }

GasFields ==
    Merge2(Opt("natural_gas_m3", {1000}),
    Merge2(Opt("natural_gas_mmbtu", {100}),
    Merge2(Opt("natural_gas_therms", {10000000}), Opt("natural_gas", NestedGas))))

UnitFacilities ==
    Merge2(ElectricityFields,
    Merge2(GasFields,
    Merge2({"scope_1" :> None, "scope_1" :> 10000},
    Merge2({"scope_2" :> None, "scope_2" :> 5000}, {"scope_3" :> 2000}))))

\* Family S: every scope absent, None or measured, with and without the
\* readings the estimates start from, for full and partial years.
ScopeFields ==
    Merge2(Opt("scope_1", {None, 10000}),
    Merge2(Opt("scope_2", {None, 5000}), Opt("scope_3", {None, 2000})))

ElectricityAndAddress ==
    Opt("electricity_kwh", {None, 0})
    \cup Merge2({"electricity_kwh" :> 100000},
                Opt("address", {ADDR_USA, ADDR_TAIWAN_LOWER, ADDR_PARIS}))

ProcessGases ==
    Opt("process_gases_kg", {EmptyDict, "NF3" :> 1, ("SF6" :> 2) @@ ("XX" :> 3)})

ScopeFacilities ==
    Merge2(ScopeFields,
    Merge2(ElectricityAndAddress,
    Merge2(Opt("natural_gas_therms", {None, 10000000}),
    Merge2(ProcessGases, Opt("operational_months", {None, 0, 6, 7, 12, -6})))))

\* Family Q: facilities of every tier, measured or estimated, of different
\* sizes, from which lists of up to MaxFacilities are drawn.
QualityShapes ==
    { Measured,
      ("scope_1" :> 30000) @@ ("scope_2" :> 0) @@ ("scope_3" :> 0),
      ("scope_1" :> 0) @@ ("scope_2" :> 0) @@ ("scope_3" :> 0),
      ("scope_1" :> None) @@ ("scope_2" :> 5000) @@ ("scope_3" :> 2000)
          @@ ("natural_gas_therms" :> 10000000),
      ("scope_1" :> None) @@ ("scope_2" :> None) @@ ("scope_3" :> None)
          @@ ("natural_gas_therms" :> 10000000) @@ ("electricity_kwh" :> 100000) }

QualityFacilities ==
    Merge2(QualityShapes,
           Opt("data_quality", {"Tier 1", "Tier 2", "Tier 3", "Tier 4", "Tier 9"}))

\* Facilities of the other shapes that take part in mixed lists.
MixedFacilities ==
    { Measured @@ ("operational_months" :> 6) @@ ("reporting_completeness" :> 90),
      Measured @@ ("electricity_mwh" :> 100) @@ ("reporting_completeness" :> 50),
      ("scope_1" :> 10000) @@ ("scope_2" :> None) @@ ("scope_3" :> 2000),
      ("scope_1" :> 10000) @@ ("scope_3" :> 2000) }

\* Lists of length 0..n over S, without facility ids.
RECURSIVE ListsUpTo(_, _)
ListsUpTo(S, n) ==
    IF n = 0 THEN {<<>>}
    ELSE LET shorter == ListsUpTo(S, n - 1)
         IN  shorter \cup {Append(l, f) : l \in {x \in shorter : Len(x) = n - 1}, f \in S}

FacilityId(i) == "FAB-" \o ToString(i)

\* The list with facility_id set by position.
WithIds(l) == [i \in 1..Len(l) |-> ("facility_id" :> FacilityId(i)) @@ l[i]]

\* scope_3_raw_data: category entries with an estimate (in hundredths of a
\* ton) or with a status only.
Estimate(v) == "total_emissions_estimate" :> v
StatusOnly == "status" :> "Not Applicable"

Scope3RawData ==
    { EmptyDict,
      "category_1" :> Estimate(80000),
      ("category_1" :> Estimate(80000)) @@ ("category_3" :> Estimate(20000)),
      ("category_1" :> Estimate(80000)) @@ ("category_8" :> StatusOnly),
      ("category_1" :> Estimate(80000)) @@ ("category_11" :> Estimate(285000)),
      "category_2" :> Estimate(700),
      ("category_1" :> Estimate(1)) @@ ("category_3" :> Estimate(2))
          @@ ("category_4" :> Estimate(4)) @@ ("category_5" :> Estimate(8))
          @@ ("category_6" :> Estimate(16)) @@ ("category_7" :> Estimate(32)),
      "category_5" :> StatusOnly }

\* The raw datasets: a facility list with the usual Scope-3 structure, or a
\* short facility list with any Scope-3 structure, or none.
DefaultScope3 == ("category_1" :> Estimate(80000)) @@ ("category_3" :> Estimate(20000))

RawDatasets ==
    { ("facilities_raw" :> WithIds(<<f>>)) @@ ("scope_3_raw_data" :> DefaultScope3) :
          f \in UnitFacilities \cup ScopeFacilities }
    \cup
    { ("facilities_raw" :> WithIds(l)) @@ ("scope_3_raw_data" :> DefaultScope3) :
          l \in ListsUpTo(QualityFacilities \cup MixedFacilities, MaxFacilities) }
    \cup
    { ("facilities_raw" :> WithIds(l)) @@ r :
          l \in ListsUpTo(MixedFacilities \cup {Measured, "scope_3" :> None}, 1),
          r \in Opt("scope_3_raw_data", Scope3RawData) }

(***************************************************************************)
(* The pipeline: DataNormalizationPipeline(raw_data).run_pipeline()        *)
(***************************************************************************)
CalcIdle == [phase |-> "idle"]

\* No second instance has been built.
NoOther == [pc |-> "none"]

Init ==
    /\ raw_data \in RawDatasets
    /\ normalized_data = None
    /\ normalization_log = <<>>
    /\ pc = "normalize_units"
    /\ facilities = <<>>
    /\ idx = 0
    /\ totals = EmptyDict
    /\ quality_metrics = EmptyDict
    /\ error = NoError
    /\ calc = CalcIdle
    /\ other = NoOther

Next ==
    \/ normalize_units_begin
    \/ normalize_units_facility
    \/ fill_missing_scope_data_begin
    \/ estimate_scope_1
    \/ estimate_scope_2
    \/ estimate_scope_3
    \/ annualize
    \/ calculate_totals
    \/ assess_data_quality
    \/ run_pipeline_return

Spec == Init /\ [][Next]_vars

(***************************************************************************)
(* Claims about the normalization pipeline (specification Spec)            *)
(***************************************************************************)
ScopeKeys == {"scope_1", "scope_2", "scope_3"}

\* The raw record of facility i.
RawFacility(i) == raw_data["facilities_raw"][i]

\* A value that is a number: the key is present and does not hold None.
IsNumber(f, k) == Has(f, k) /\ f[k] # None

\* fill_missing_scope_data has returned.
AfterFill == pc \in {"calculate_totals", "assess_data_quality", "compile", "done"}

\* assess_data_quality has returned.
AfterQuality == pc \in {"compile", "done"}

\* The Scope-3 structure is well formed: every category entry the pipeline
\* reads carries an estimate.
Scope3WellFormed ==
    \A n \in SuppliedBreakdown(Scope3Data(raw_data)) :
        Has(Scope3Data(raw_data)[CategoryKey[n]], "total_emissions_estimate")

\* C1 (as claimed): on every raw dataset whose facilities carry a
\* facility_id and whose scopes, energy fields and operational_months are
\* absent or None in any combination, run_pipeline raises nothing and its
\* result holds the three scope totals and a data_quality_score.
C1_NeverRaises ==
    Scope3WellFormed =>
        /\ error = NoError
        /\ pc = "done" =>
             {"scope_1_total", "scope_2_total", "scope_3_total", "data_quality_score"}
                 \subseteq DOMAIN normalized_data

\* C2 (as claimed): after fill_missing_scope_data every scope that was None
\* or absent in the raw record is a number, is flagged scope_k_estimated and
\* has a WARNING ESTIMATION entry for its facility; a scope that was present
\* has no flag.
C2_EveryGapEstimated ==
    AfterFill =>
        \A i \in 1..Len(facilities) : \A k \in ScopeKeys :
            IF GetOrNone(RawFacility(i), k) = None
            THEN /\ IsNumber(facilities[i], k)
                 /\ Get(facilities[i], k \o "_estimated", FALSE)
                 /\ \E j \in 1..Len(normalization_log) :
                        normalization_log[j] =
                            LogEntry("ESTIMATION", facilities[i]["facility_id"], k, "WARNING")
            ELSE ~Has(facilities[i], k \o "_estimated")

\* Every scope value the quality assessment reads is a non-negative number.
NonNegativeEmissions ==
    \A i \in 1..Len(facilities) : \A k \in ScopeKeys :
        IsNumber(facilities[i], k) /\ facilities[i][k] >= 0

\* C3 (as claimed): for facilities with non-negative emissions the
\* data_quality_score returned lies in the closed range 0 to 5.
C3_ScoreInRange ==
    (AfterQuality /\ NonNegativeEmissions) =>
        /\ quality_metrics.data_quality_score >= 0
        /\ quality_metrics.data_quality_score <= 500

\* The claimed score of one facility, in tenths: the tier base score minus
\* 0.5 for each estimated scope.
C4_FacilityScore(f) ==
    LET tier == Get(f, "data_quality", "Tier 3")
        base == CASE tier = "Tier 1" -> 50 [] tier = "Tier 2" -> 35
                  [] tier = "Tier 4" -> 10 [] OTHER -> 20
    IN  base - 5 * Cardinality({k \in ScopeKeys : Get(f, k \o "_estimated", FALSE)})

\* The emissions of a facility: its scope values, an absent one counting 0.
C4_Emissions(f) == Get(f, "scope_1", 0) + Get(f, "scope_2", 0) + Get(f, "scope_3", 0)

RECURSIVE C4_Sum(_, _)
C4_Sum(weighted, n) ==
    IF n = 0 THEN 0
    ELSE C4_Sum(weighted, n - 1)
         + C4_Emissions(facilities[n]) * (IF weighted THEN C4_FacilityScore(facilities[n]) ELSE 1)

AfterNormalize == pc = "fill_missing_scope_data"

SourceUnitKeys ==
    {"electricity_mwh", "electricity_gwh", "natural_gas_m3", "natural_gas_mmbtu"}

\* Key k is present in both records with the same value, or in neither.
SameField(r, f, k) == (Has(r, k) <=> Has(f, k)) /\ (Has(r, k) => r[k] = f[k])

\* C5 (as claimed): after normalize_units no source-unit key is left, each
\* source value is converted to its canonical field, and every other field
\* is unchanged.
C5_EachUnitConverted ==
    AfterNormalize =>
        \A i \in 1..Len(facilities) :
            LET r == RawFacility(i)
                f == facilities[i]
            IN  /\ DOMAIN f \cap SourceUnitKeys = {}
                /\ Has(r, "electricity_mwh") =>
                       IsNumber(f, "electricity_kwh")
                       /\ f["electricity_kwh"] = r["electricity_mwh"] * 1000
                /\ Has(r, "electricity_gwh") =>
                       IsNumber(f, "electricity_kwh")
                       /\ f["electricity_kwh"] = r["electricity_gwh"] * 1000000
                /\ Has(r, "natural_gas_m3") =>
                       IsNumber(f, "natural_gas_therms")
                       /\ f["natural_gas_therms"] = r["natural_gas_m3"] * 353
                /\ Has(r, "natural_gas_mmbtu") =>
                       IsNumber(f, "natural_gas_therms")
                       /\ f["natural_gas_therms"] = r["natural_gas_mmbtu"] * 100000
                /\ (~Has(r, "electricity_mwh") /\ ~Has(r, "electricity_gwh"))
                       => SameField(r, f, "electricity_kwh")
                /\ (~Has(r, "natural_gas_m3") /\ ~Has(r, "natural_gas_mmbtu"))
                       => SameField(r, f, "natural_gas_therms")
                /\ \A k \in ((DOMAIN r) \cup (DOMAIN f))
                            \ (SourceUnitKeys \cup {"electricity_kwh", "natural_gas_therms"}) :
                       SameField(r, f, k)

\* The raw record carries a nested natural_gas record given in therms.
NestedTherms(r) == Has(r, "natural_gas") /\ r["natural_gas"]["unit"] = "therms"

\* C5 (amended): after normalize_units no source-unit key is left;
\* electricity_gwh = g gives electricity_kwh = g*1000000, and
\* electricity_mwh = m gives m*1000 when there is no electricity_gwh; a
\* nested natural_gas record in therms is removed and gives
\* natural_gas_therms = its amount, otherwise natural_gas_mmbtu = b gives
\* b*10, otherwise natural_gas_m3 = v gives v*0.0353; every other field,
\* and a canonical field with no source, is unchanged.
C5_UnitsNormalized ==
    AfterNormalize =>
        \A i \in 1..Len(facilities) :
            LET r == RawFacility(i)
                f == facilities[i]
            IN  /\ DOMAIN f \cap SourceUnitKeys = {}
                /\ IF Has(r, "electricity_gwh")
                   THEN IsNumber(f, "electricity_kwh")
                        /\ f["electricity_kwh"] = r["electricity_gwh"] * 1000000
                   ELSE IF Has(r, "electricity_mwh")
                   THEN IsNumber(f, "electricity_kwh")
                        /\ f["electricity_kwh"] = r["electricity_mwh"] * 1000
                   ELSE SameField(r, f, "electricity_kwh")
                /\ IF NestedTherms(r)
                   THEN IsNumber(f, "natural_gas_therms")
                        /\ f["natural_gas_therms"] = r["natural_gas"]["amount"]
                        /\ ~Has(f, "natural_gas")
                   ELSE /\ SameField(r, f, "natural_gas")
                        /\ IF Has(r, "natural_gas_mmbtu")
                           THEN IsNumber(f, "natural_gas_therms")
                                /\ f["natural_gas_therms"] = r["natural_gas_mmbtu"] * 100000
                           ELSE IF Has(r, "natural_gas_m3")
                           THEN IsNumber(f, "natural_gas_therms")
                                /\ f["natural_gas_therms"] = r["natural_gas_m3"] * 353
                           ELSE SameField(r, f, "natural_gas_therms")
                /\ \A k \in ((DOMAIN r) \cup (DOMAIN f))
                            \ (SourceUnitKeys
                               \cup {"electricity_kwh", "natural_gas_therms", "natural_gas"}) :
                       SameField(r, f, k)

\* A facility given as electricity_mwh = 100 with a gas volume in m3 has
\* been normalized: 100000 kWh, and neither source key is left.
C5_Witness ==
    /\ AfterNormalize
    /\ \E i \in 1..Len(facilities) :
        /\ Has(RawFacility(i), "electricity_mwh") /\ RawFacility(i)["electricity_mwh"] = 100
        /\ ~Has(RawFacility(i), "electricity_gwh")
        /\ Has(RawFacility(i), "natural_gas_m3")
        /\ ~Has(facilities[i], "electricity_mwh")
        /\ ~Has(facilities[i], "natural_gas_m3")
        /\ facilities[i]["electricity_kwh"] = 100000

\* The claimed Scope-1 estimate of facility f, in hundredths of a ton:
\* 0.0053 * natural_gas_therms + sum over the process gases of
\* 0.15 * nameplate_kg * GWP / 1000, rounded to 2 decimals.
RECURSIVE C6_GasTonsE8(_, _)
C6_GasTonsE8(gases, S) ==
    IF S = {} THEN 0
    ELSE LET g == CHOOSE x \in S : TRUE
         IN  15 * gases[g] * GWP(g) * 1000 + C6_GasTonsE8(gases, S \ {g})

C6_Estimate(f) ==
    RoundDiv(
        (IF IsNumber(f, "natural_gas_therms") THEN 53 * f["natural_gas_therms"] ELSE 0)
        + (IF Has(f, "process_gases_kg")
           THEN C6_GasTonsE8(f["process_gases_kg"], DOMAIN f["process_gases_kg"]) ELSE 0),
        1000000)

\* C6: when scope_1 is missing, the scope-1 block sets it to the claimed
\* estimate and sets scope_1_estimated; the value stays in the pipeline's
\* result unless the facility is annualized.
C6_Scope1Estimate ==
    /\ (pc = "estimate_scope_2" /\ GetOrNone(RawFacility(idx), "scope_1") = None) =>
           /\ IsNumber(facilities[idx], "scope_1")
           /\ facilities[idx]["scope_1"] = C6_Estimate(facilities[idx])
           /\ Get(facilities[idx], "scope_1_estimated", FALSE)
    /\ pc = "done" =>
           \A i \in 1..Len(facilities) :
               (/\ GetOrNone(RawFacility(i), "scope_1") = None
                /\ ~Has(facilities[i], "scope_1_annualized")) =>
                   /\ normalized_data["facilities"][i]["scope_1"] = C6_Estimate(facilities[i])
                   /\ normalized_data["facilities"][i]["scope_1_estimated"]

\* scope_1 = None with 1000 therms of natural gas and no process gases has
\* gone through the pipeline: scope_1 = 5.30, flagged as estimated.
C6_Witness ==
    /\ pc = "done"
    /\ \E i \in 1..Len(facilities) :
        /\ Has(RawFacility(i), "scope_1") /\ RawFacility(i)["scope_1"] = None
        /\ Get(RawFacility(i), "natural_gas_therms", 0) = 10000000
        /\ ~Has(RawFacility(i), "process_gases_kg")
        /\ normalized_data["facilities"][i]["scope_1"] = 530
        /\ normalized_data["facilities"][i]["scope_1_estimated"]

\* The annualization block acting on facility idx, as claimed: with
\* operational_months = m < 12 every scope value v becomes v * 12 / m
\* rounded to 2 decimals (estimated values included); with m >= 12 or no
\* such field the scope values stay as they are.  The claim is stated here
\* for the months of a partial year, m in 1..11, only.
C7_AnnualizeStep ==
    pc = "annualize" =>
        LET f == facilities[idx]
            g == facilities'[idx]
            m == GetOrNone(f, "operational_months")
        IN  /\ (m # None /\ m >= 1 /\ m < 12) =>
                   \A k \in ScopeKeys :
                       IsNumber(f, k) => (IsNumber(g, k) /\ g[k] = RoundDiv(f[k] * 12, m))
            /\ (~Has(f, "operational_months") \/ (m # None /\ m >= 12)) =>
                   \A k \in ScopeKeys : SameField(f, g, k)

\* C7 (as claimed): every facility with operational_months = m < 12 has
\* each scope replaced by its post-estimation value times 12/m.
C7_PartialYearScaled == [][C7_AnnualizeStep]_vars

\* The sum of the total_emissions_estimate values of the categories S of
\* the raw Scope-3 structure d; an entry without an estimate adds nothing.
RECURSIVE C8_SumEstimates(_, _)
C8_SumEstimates(d, S) ==
    IF S = {} THEN 0
    ELSE LET n == CHOOSE x \in S : TRUE
         IN  (IF Has(d, CategoryKey[n]) /\ Has(d[CategoryKey[n]], "total_emissions_estimate")
              THEN d[CategoryKey[n]]["total_emissions_estimate"] ELSE 0)
             + C8_SumEstimates(d, S \ {n})

\* C8 (as claimed): when the raw Scope-3 structure supplies category
\* entries, scope_3_total is the sum of all the supplied estimates.
C8_TotalOfAllSupplied ==
    (pc = "done" /\ DOMAIN Scope3Data(raw_data) # {}) =>
        normalized_data["scope_3_total"] = C8_SumEstimates(Scope3Data(raw_data), 1..15)

\* C8 (amended): when the raw Scope-3 structure supplies category entries,
\* scope_3_total is the sum of the supplied estimates of categories 1, 3,
\* 4, 5, 6 and 7 (which is the sum of scope_3_breakdown), whatever the
\* facilities' own scope_3 values are.
C8_TotalOfBreakdown ==
    (pc = "done" /\ DOMAIN Scope3Data(raw_data) # {}) =>
        /\ normalized_data["scope_3_total"] =
               C8_SumEstimates(Scope3Data(raw_data), {1, 3, 4, 5, 6, 7})
        /\ normalized_data["scope_3_total"] =
               SumOver(normalized_data["scope_3_breakdown"],
                       DOMAIN normalized_data["scope_3_breakdown"])

\* A run on a Scope-3 structure with categories 1 and 11 has returned
\* 800.00 tons, the estimate of category 1, for a facility of 20.00 tons.
C8_Witness ==
    /\ pc = "done"
    /\ Has(Scope3Data(raw_data), "category_1")
    /\ Has(Scope3Data(raw_data), "category_11")
    /\ normalized_data["scope_3_total"] = 80000
    /\ Len(facilities) = 1
    /\ facilities[1]["scope_3"] = 2000

(***************************************************************************)
(* ghg_calculator.py.  A Decimal is modelled as Python holds it: a sign, a *)
(* coefficient of any length and an exponent, with the results of          *)
(* arithmetic rounded half-even to the context's 28 significant digits.    *)
(* A coefficient is its sequence of decimal digits, least significant      *)
(* first (<<>> is 0); a Decimal is kept without trailing zeros, so equal   *)
(* values are equal records.  A unit name is a string, hence a sequence of *)
(* one-character strings.                                                  *)
(***************************************************************************)
\* decimal.getcontext().prec, the default context's precision
PREC == 28

\* TLC evaluates the parameters of an operator and the definitions of a LET
\* where they are first used, which can be deep inside a recursion, and a
\* bound variable holds a value: an intermediate result v of the arithmetic
\* is therefore bound as `CHOOSE r \in {F(x) : x \in {v}} : TRUE`, which
\* is F(v).

\* The digits of the natural number n.
RECURSIVE NatDigits(_)
NatDigits(n) == IF n = 0 THEN <<>> ELSE <<n % 10>> \o NatDigits(n \div 10)

\* The number a short digit sequence stands for.
RECURSIVE DigitsNat(_)
DigitsNat(s) == IF s = <<>> THEN 0 ELSE s[1] + 10 * DigitsNat(Tail(s))

Digit(s, i) == IF i >= 1 /\ i <= Len(s) THEN s[i] ELSE 0

\* The positions of s that hold a digit other than 0.
NonZero(s) == {i \in 1..Len(s) : s[i] # 0}

\* Without zeros at the most significant end.
TrimTop(s) ==
    IF NonZero(s) = {} THEN <<>>
    ELSE SubSeq(s, 1, CHOOSE i \in NonZero(s) : \A j \in NonZero(s) : j <= i)

\* The number of zeros at the least significant end of s, s not all zeros.
LowZeros(s) == (CHOOSE i \in NonZero(s) : \A j \in NonZero(s) : i <= j) - 1

Zeros(k) == [i \in 1..k |-> 0]

\* f[lo] + ... + f[hi], by halves
RECURSIVE SumRange(_, _, _)
SumRange(f, lo, hi) ==
    IF lo > hi THEN 0
    ELSE IF lo = hi THEN f[lo]
    ELSE SumRange(f, lo, (lo + hi) \div 2) + SumRange(f, (lo + hi) \div 2 + 1, hi)

\* The digits of positions lo..hi of the number whose position i holds the
\* (possibly negative or many-digit) amount cols[i], with the carry that
\* comes into position lo and the one that leaves position hi; by halves.
RECURSIVE CarryRange(_, _, _, _)
CarryRange(cols, lo, hi, carry) ==
    IF lo > hi THEN [c |-> <<>>, carry |-> carry]
    ELSE IF lo = hi
        THEN CHOOSE r1 \in {[c |-> <<t % 10>>, carry |-> t \div 10] :
                             t \in {cols[lo] + carry}} : TRUE
    ELSE CHOOSE r1 \in
             {CHOOSE r2 \in
                  {[c |-> low.c \o high.c, carry |-> high.carry] :
                       high \in {CarryRange(cols, (lo + hi) \div 2 + 1, hi, low.carry)}} : TRUE :
                  low \in {CarryRange(cols, lo, (lo + hi) \div 2, carry)}} : TRUE

Longer(a, b) == IF Len(a) > Len(b) THEN Len(a) ELSE Len(b)

NatAdd(a, b) ==
    CHOOSE r1 \in
        {IF r.carry = 0 THEN r.c ELSE r.c \o <<r.carry>> :
             r \in {CarryRange([i \in 1..Longer(a, b) |-> Digit(a, i) + Digit(b, i)],
                               1, Longer(a, b), 0)}} : TRUE

\* a - b for a >= b
NatSub(a, b) ==
    CHOOSE r1 \in
        {TrimTop(r.c) :
             r \in {CarryRange([i \in 1..Len(a) |-> a[i] - Digit(b, i)], 1, Len(a), 0)}} : TRUE

\* -1, 0 or 1 as a < b, a = b or a > b (both without leading zeros)
NatCmp(a, b) ==
    LET differ == {i \in 1..Len(a) : a[i] # Digit(b, i)}
        top == CHOOSE i \in differ : \A j \in differ : j <= i
    IN  IF Len(a) < Len(b) THEN -1
        ELSE IF Len(a) > Len(b) THEN 1
        ELSE IF differ = {} THEN 0
        ELSE IF a[top] < b[top] THEN -1 ELSE 1

\* The sum of the digit products that fall on position k.
Column(a, b, k) == SumRange([i \in 1..Len(a) |-> a[i] * Digit(b, k + 1 - i)], 1, Len(a))

NatMul(a, b) ==
    CHOOSE r1 \in
        {TrimTop(r.c) :
             r \in {CarryRange([k \in 1..(Len(a) + Len(b)) |-> Column(a, b, k)],
                               1, Len(a) + Len(b), 0)}} : TRUE

\* Long division of the digits lo..hi of a by the number d, 0 < d < 2^31 / 10,
\* r being the remainder that comes down from the digits above hi; by halves.
RECURSIVE DivRange(_, _, _, _, _)
DivRange(a, d, lo, hi, r) ==
    IF lo > hi THEN [q |-> <<>>, r |-> r]
    ELSE IF lo = hi
        THEN CHOOSE r1 \in {[q |-> <<cur \div d>>, r |-> cur % d] :
                             cur \in {r * 10 + a[lo]}} : TRUE
    ELSE CHOOSE r1 \in
             {CHOOSE r2 \in
                  {[q |-> low.q \o high.q, r |-> low.r] :
                       low \in {DivRange(a, d, lo, (lo + hi) \div 2, high.r)}} : TRUE :
                  high \in {DivRange(a, d, (lo + hi) \div 2 + 1, hi, r)}} : TRUE

\* Quotient and remainder of a by the number d.
DivNat(a, d) == DivRange(a, d, 1, Len(a), 0)

\* The Decimal (-1)^neg * c * 10^e, without trailing zeros.
CanonOf(neg, t, e) ==
    IF t = <<>> THEN [neg |-> FALSE, c |-> <<>>, e |-> 0]
    ELSE [neg |-> neg, c |-> SubSeq(t, LowZeros(t) + 1, Len(t)), e |-> e + LowZeros(t)]

Canon(neg, c, e) == CHOOSE r1 \in {CanonOf(neg, t, e) : t \in {TrimTop(c)}} : TRUE

\* c * 10^e rounded half-even to PREC significant digits; `sticky` says
\* that the exact value is a little above c * 10^e.
RoundPrec(c, e, sticky) ==
    IF Len(c) <= PREC THEN [c |-> c, e |-> e]
    ELSE LET k == Len(c) - PREC
             kept == SubSeq(c, k + 1, Len(c))
             below == sticky \/ \E i \in 1..(k - 1) : c[i] # 0
             up == \/ c[k] > 5
                   \/ c[k] = 5 /\ (below \/ kept[1] % 2 = 1)
         IN  [c |-> IF up THEN NatAdd(kept, <<1>>) ELSE kept, e |-> e + k]

\* A result of arithmetic: the exact (-1)^neg * c * 10^e, a little more if
\* `sticky`, rounded to the context's precision.
Rounded(neg, c, e, sticky) ==
    CHOOSE r1 \in {Canon(neg, r.c, r.e) : r \in {RoundPrec(c, e, sticky)}} : TRUE

\* Decimal("<digits>") with `scale` digits after the point.
Dec(digits, scale) == Canon(digits < 0, NatDigits(Abs(digits)), -scale)

DecIsZero(a) == a.c = <<>>

DecNeg(a) == Canon(~a.neg, a.c, a.e)

DecAbs(a) == [neg |-> FALSE, c |-> a.c, e |-> a.e]

\* a * b of two values
MulValues(a, b) ==
    CHOOSE r1 \in {Rounded(a.neg # b.neg, p, a.e + b.e, FALSE) :
                    p \in {NatMul(a.c, b.c)}} : TRUE

\* a * b
DecMul(a, b) == CHOOSE r1 \in {MulValues(x, y) : x \in {a}, y \in {b}} : TRUE

\* The dividend is extended with zeros until the quotient has more digits
\* than the precision.
DivShift(a, b) ==
    IF PREC + 1 + Len(b.c) > Len(a.c) THEN PREC + 1 + Len(b.c) - Len(a.c) ELSE 0

\* a / b of two values
DivValues(a, b) ==
    IF DecIsZero(a) THEN a
    ELSE CHOOSE r1 \in
             {CHOOSE r2 \in
                  {Rounded(a.neg # b.neg, q, a.e - b.e - DivShift(a, b), qr.r # 0) :
                       q \in {TrimTop(qr.q)}} : TRUE :
                  qr \in {DivNat(Zeros(DivShift(a, b)) \o a.c, DigitsNat(b.c))}} : TRUE

\* a / b for b # 0 whose coefficient is below 2^31 / 10
DecDiv(a, b) == CHOOSE r1 \in {DivValues(x, y) : x \in {a}, y \in {b}} : TRUE

\* The coefficient of a at the exponent e <= a.e
Aligned(a, e) == Zeros(a.e - e) \o a.c

\* The sign and the coefficient of a + b at the exponent e of the two
\* coefficients ca and cb
SumAt(a, b, ca, cb) ==
    IF a.neg = b.neg THEN [neg |-> a.neg, c |-> NatAdd(ca, cb)]
    ELSE IF NatCmp(TrimTop(ca), TrimTop(cb)) >= 0 THEN [neg |-> a.neg, c |-> NatSub(ca, cb)]
    ELSE [neg |-> b.neg, c |-> NatSub(cb, ca)]

\* a + b of two values
AddValues(a, b) ==
    LET e == IF a.e < b.e THEN a.e ELSE b.e
    IN  CHOOSE r1 \in
            {CHOOSE r2 \in {Rounded(sum.neg, c, e, FALSE) : c \in {TrimTop(sum.c)}} : TRUE :
                 sum \in {SumAt(a, b, Aligned(a, e), Aligned(b, e))}} : TRUE

\* a + b
DecAdd(a, b) == CHOOSE r1 \in {AddValues(x, y) : x \in {a}, y \in {b}} : TRUE

\* a - b
DecSub(a, b) == DecAdd(a, DecNeg(b))

\* a <= b
DecLeq(a, b) == CHOOSE r1 \in {DecIsZero(d) \/ d.neg : d \in {DecSub(a, b)}} : TRUE

\* f"{from_unit}_to_{to_unit}"  (lines 105, 114)
ConversionKey(from_unit, to_unit) == from_unit \o <<"_", "t", "o", "_">> \o to_unit

ENERGY_CONVERSIONS ==
    (<<"k", "w", "h", "_", "t", "o", "_", "m", "w", "h">> :> Dec(1, 3)) @@
    (<<"k", "w", "h", "_", "t", "o", "_", "g", "w", "h">> :> Dec(1, 6)) @@
    (<<"k", "w", "h", "_", "t", "o", "_", "t", "j">>  :> Dec(36, 7)) @@
    (<<"b", "t", "u", "_", "t", "o", "_", "k", "w", "h">> :> Dec(293071, 9))

VOLUME_CONVERSIONS ==
    (<<"l", "i", "t", "e", "r", "s", "_", "t", "o", "_", "g", "a", "l", "l", "o", "n", "s">>      :> Dec(264172, 6)) @@
    (<<"g", "a", "l", "l", "o", "n", "s", "_", "t", "o", "_", "l", "i", "t", "e", "r", "s">>      :> Dec(378541, 5)) @@
    (<<"c", "u", "b", "i", "c", "_", "m", "e", "t", "e", "r", "s", "_", "t", "o", "_", "l", "i", "t", "e", "r", "s">> :> Dec(1000, 0))

MASS_CONVERSIONS ==
    (<<"k", "g", "_", "t", "o", "_", "t", "o", "n", "s">> :> Dec(1, 3)) @@
    (<<"t", "o", "n", "s", "_", "t", "o", "_", "k", "g">> :> Dec(1000, 0)) @@
    (<<"l", "b", "s", "_", "t", "o", "_", "k", "g">>  :> Dec(453592, 6)) @@
    (<<"k", "g", "_", "t", "o", "_", "l", "b", "s">>  :> Dec(220462, 5))

DISTANCE_CONVERSIONS ==
    (<<"k", "m", "_", "t", "o", "_", "m", "i", "l", "e", "s">> :> Dec(621371, 6)) @@
    (<<"m", "i", "l", "e", "s", "_", "t", "o", "_", "k", "m">> :> Dec(160934, 5))

\* The list both loops of convert go through, in order (lines 108-109, 115-116).
ConversionTables ==
    <<ENERGY_CONVERSIONS, VOLUME_CONVERSIONS, MASS_CONVERSIONS, DISTANCE_CONVERSIONS>>

\* `key in conversions` for some table of the list
InTables(key) == \E t \in 1..Len(ConversionTables) : key \in DOMAIN ConversionTables[t]

\* conversions[key] of the first table of the list that holds the key
TableFactor(key) ==
    LET t == CHOOSE i \in 1..Len(ConversionTables) :
                 /\ key \in DOMAIN ConversionTables[i]
                 /\ \A j \in 1..(i - 1) : key \notin DOMAIN ConversionTables[j]
    IN  ConversionTables[t][key]

\* pint's default UnitRegistry (line 13) as convert uses it: the names it
\* resolves, each with its dimension and its size in the dimension's
\* reference unit (joule, liter, kilogram, metre; the gallon to eight
\* digits).  pint computes in floats; the model computes the same
\* quotient in Decimals.  The registry is
\* case-sensitive and convert hands it lower-cased names, so "kwh", "mwh",
\* "gwh", "tj", "gj", "btu" and "mmbtu" are not among them (pint knows
\* "kWh", "MWh", "GJ", "Btu"); neither are "cubic_meters" and "widgets".
PintRegistry ==
    (<<"j", "o", "u", "l", "e">>   :> [dim |-> "energy", size |-> Dec(1, 0)]) @@
    (<<"t", "h", "e", "r", "m">>   :> [dim |-> "energy", size |-> Dec(105505600, 0)]) @@
    (<<"l", "i", "t", "e", "r">>   :> [dim |-> "volume", size |-> Dec(1, 0)]) @@
    (<<"l", "i", "t", "e", "r", "s">>  :> [dim |-> "volume", size |-> Dec(1, 0)]) @@
    (<<"g", "a", "l", "l", "o", "n">>  :> [dim |-> "volume", size |-> Dec(37854118, 7)]) @@
    (<<"g", "a", "l", "l", "o", "n", "s">> :> [dim |-> "volume", size |-> Dec(37854118, 7)]) @@
    (<<"g">>       :> [dim |-> "mass", size |-> Dec(1, 3)]) @@
    (<<"k", "g">>      :> [dim |-> "mass", size |-> Dec(1, 0)]) @@
    (<<"l", "b">>      :> [dim |-> "mass", size |-> Dec(45359237, 8)]) @@
    (<<"l", "b", "s">>     :> [dim |-> "mass", size |-> Dec(45359237, 8)]) @@
    (<<"t", "o", "n">>     :> [dim |-> "mass", size |-> Dec(90718474, 5)]) @@
    (<<"t", "o", "n", "s">>    :> [dim |-> "mass", size |-> Dec(90718474, 5)]) @@
    (<<"t", "o", "n", "n", "e">>   :> [dim |-> "mass", size |-> Dec(1000, 0)]) @@
    (<<"m">>       :> [dim |-> "length", size |-> Dec(1, 0)]) @@
    (<<"k", "m">>      :> [dim |-> "length", size |-> Dec(1000, 0)]) @@
    (<<"m", "i">>      :> [dim |-> "length", size |-> Dec(1609344, 3)]) @@
    (<<"m", "i", "l", "e">>    :> [dim |-> "length", size |-> Dec(1609344, 3)]) @@
    (<<"m", "i", "l", "e", "s">>   :> [dim |-> "length", size |-> Dec(1609344, 3)])

\* ureg.Quantity(value, from_unit).to(to_unit) raises nothing (lines 122-123):
\* both names are defined and have the same dimension.
PintConverts(from_unit, to_unit) ==
    /\ from_unit \in DOMAIN PintRegistry
    /\ to_unit \in DOMAIN PintRegistry
    /\ PintRegistry[from_unit].dim = PintRegistry[to_unit].dim

PintConvert(value, from_unit, to_unit) ==
    DecMul(value, DecDiv(PintRegistry[from_unit].size, PintRegistry[to_unit].size))

\* What a call returns or raises: err is "" and value the Decimal returned,
\* or err is the type of the exception raised.
Returned(value) == [err |-> "", value |-> value]
RaisedError(type, msg) == [err |-> type, msg |-> msg]

\* convert with the reverse entry of a table applied as a factor, not as a
\* divisor
ConvertReverseAsFactor(value, from_unit, to_unit) ==
    LET f == Lower(from_unit)
        t == Lower(to_unit)
        conversion_key == ConversionKey(f, t)
        reverse_key == ConversionKey(t, f)
    IN  IF f = t THEN Returned(value)
        ELSE IF InTables(conversion_key)
            THEN Returned(DecMul(value, TableFactor(conversion_key)))
        ELSE IF InTables(reverse_key)
            THEN Returned(DecMul(value, TableFactor(reverse_key)))
        ELSE IF PintConverts(f, t) THEN Returned(PintConvert(value, f, t))
        ELSE RaisedError("ValueError", "Cannot convert")

\* UnitConverter.convert(value, from_unit, to_unit)
Convert(value, from_unit, to_unit) ==
    LET f == Lower(from_unit)
        t == Lower(to_unit)
        conversion_key == ConversionKey(f, t)
        reverse_key == ConversionKey(t, f)
    IN  IF f = t THEN Returned(value)
        ELSE IF InTables(conversion_key)
            THEN Returned(DecMul(value, TableFactor(conversion_key)))
        ELSE IF InTables(reverse_key)
            THEN Returned(DecDiv(value, TableFactor(reverse_key)))
        ELSE IF PintConverts(f, t) THEN Returned(PintConvert(value, f, t))
        ELSE RaisedError("ValueError", "Cannot convert")

\* UnitConverter.to_kg_co2e(value, unit)
to_kg_co2e(value, unit) ==
    LET u == Lower(unit)
    IN  IF Contains(u, <<"t", "o", "n">>) \/ Contains(u, <<"t", "o", "n", "n", "e">>) THEN DecMul(value, Dec(1000, 0))
        ELSE IF Contains(u, <<"k", "g">>) THEN value
        ELSE IF Contains(u, <<"g">>) THEN DecDiv(value, Dec(1000, 0))
        ELSE value

\* An Optional[...] argument: <<>> is None and <<x>> is x.
NoneValue == <<>>
Some(x) == <<x>>

\* `a or b` for an Optional[Decimal] a: None and Decimal(0) are falsy
OrElse(a, b) == IF a = NoneValue \/ DecIsZero(a[1]) THEN b ELSE a[1]

\* EmissionResult(co2e_kg, co2_kg, ch4_kg, n2o_kg): the fields __init__
\* stores, and `engine`, the method that built it (recognisable in the code
\* by the result's calculation_formula).
EmissionResult(engine, co2e_kg, co2_kg, ch4_kg, n2o_kg) ==
    [err |-> "", engine |-> engine,
     co2e_kg |-> co2e_kg,
     co2_kg |-> OrElse(co2_kg, co2e_kg),
     ch4_kg |-> OrElse(ch4_kg, Dec(0, 0)),
     n2o_kg |-> OrElse(n2o_kg, Dec(0, 0))]

\* co2e_tons handing out the kilograms unchanged
co2e_tons_undivided(result) == result.co2e_kg

\* EmissionResult.co2e_tons
co2e_tons(result) == DecDiv(result.co2e_kg, Dec(1000, 0))

\* s.split("_per_")[-1]: what follows the last of the separators found
\* left to right without overlap
RECURSIVE SplitLast(_, _)
SplitLast(s, sep) ==
    IF ~Contains(s, sep) THEN s
    ELSE LET i == CHOOSE k \in 0..(Len(s) - Len(sep)) :
                      /\ SubSeq(s, k + 1, k + Len(sep)) = sep
                      /\ \A j \in 0..(k - 1) : SubSeq(s, j + 1, j + Len(sep)) # sep
         IN  SplitLast(SubSeq(s, i + Len(sep) + 1, Len(s)), sep)

\* bool(gas_breakdown) of an Optional[Dict]: None and {} are falsy
HasBreakdown(gas_breakdown) ==
    gas_breakdown # NoneValue /\ DOMAIN gas_breakdown[1] # {}

\* co2e_kg * Decimal(str(gas_breakdown.get(gas, default)))
GasShare(co2e_kg, gas_breakdown, gas, default) ==
    Some(DecMul(co2e_kg, Get(gas_breakdown[1], gas, default)))

\* Scope1Calculator.calculate_emission
calculate_emission(activity_amount, activity_unit, emission_factor, emission_factor_unit, gas_breakdown) ==
    LET expected_unit ==
            IF Contains(emission_factor_unit, <<"_", "p", "e", "r", "_">>)
            THEN SplitLast(emission_factor_unit, <<"_", "p", "e", "r", "_">>)
            ELSE activity_unit
        converted == Convert(activity_amount, activity_unit, expected_unit)
        standardized_amount ==
            CHOOSE r1 \in {IF c.err = "ValueError" THEN activity_amount ELSE c.value :
                              c \in {converted}} : TRUE
        product == DecMul(standardized_amount, emission_factor)
        fu == Lower(emission_factor_unit)
        co2e_kg ==
            CHOOSE r1 \in {IF Contains(fu, <<"t", "o", "n">>) THEN to_kg_co2e(p, <<"t", "o", "n", "s">>)
                           ELSE IF Contains(fu, <<"g">>) /\ ~Contains(fu, <<"k", "g">>)
                               THEN to_kg_co2e(p, <<"g">>)
                           ELSE p : p \in {product}} : TRUE
        given == HasBreakdown(gas_breakdown)
    IN  CHOOSE r1 \in {EmissionResult("calculate_emission", k,
                IF given THEN GasShare(k, gas_breakdown, "co2", Dec(10, 1)) ELSE NoneValue,
                IF given THEN GasShare(k, gas_breakdown, "ch4", Dec(0, 0)) ELSE NoneValue,
                IF given THEN GasShare(k, gas_breakdown, "n2o", Dec(0, 0)) ELSE NoneValue) :
                    k \in {co2e_kg}} : TRUE

\* Scope2Calculator.calculate_location_based
calculate_location_based(electricity_kwh, grid_emission_factor, gas_breakdown) ==
    LET co2e_kg == DecMul(electricity_kwh, grid_emission_factor)
        given == HasBreakdown(gas_breakdown)
    IN  EmissionResult("calculate_location_based", co2e_kg,
            IF given THEN GasShare(co2e_kg, gas_breakdown, "co2", Dec(95, 2)) ELSE NoneValue,
            IF given THEN GasShare(co2e_kg, gas_breakdown, "ch4", Dec(3, 2)) ELSE NoneValue,
            IF given THEN GasShare(co2e_kg, gas_breakdown, "n2o", Dec(2, 2)) ELSE NoneValue)

\* calculate_market_based charging the renewable part as well
calculate_market_based_gross(electricity_kwh, supplier_emission_factor, renewable_energy_kwh, gas_breakdown) ==
    EmissionResult("calculate_market_based", DecMul(electricity_kwh, supplier_emission_factor),
                   NoneValue, NoneValue, NoneValue)

\* Scope2Calculator.calculate_market_based (lines 338-369); gas_breakdown is
\* accepted and not used.
calculate_market_based(electricity_kwh, supplier_emission_factor, renewable_energy_kwh, gas_breakdown) ==
    LET non_renewable_kwh == DecSub(electricity_kwh, renewable_energy_kwh)
        co2e_kg == DecMul(non_renewable_kwh, supplier_emission_factor)
    IN  EmissionResult("calculate_market_based", co2e_kg, NoneValue, NoneValue, NoneValue)


\* Scope2Calculator.calculate_steam_heat
calculate_steam_heat(amount, unit, emission_factor, emission_factor_unit) ==
    LET u == Lower(unit)
        standardized_amount ==
            IF Contains(u, <<"m", "m", "b", "t", "u">>) THEN amount
            ELSE IF Contains(u, <<"g", "j">>) THEN DecMul(amount, Dec(947817, 6))
            ELSE IF Contains(u, <<"k", "w", "h">>) THEN DecMul(amount, Dec(341214, 8))
            ELSE amount
    IN  EmissionResult("calculate_steam_heat", DecMul(standardized_amount, emission_factor),
                       NoneValue, NoneValue, NoneValue)

\* Scope3Calculator.calculate_spend_based
calculate_spend_based(spend_amount, currency, emission_factor, category) ==
    EmissionResult("calculate_spend_based", DecMul(spend_amount, emission_factor),
                   NoneValue, NoneValue, NoneValue)

\* Scope3Calculator.calculate_distance_based; an exception of convert
\* propagates
calculate_distance_based(distance, distance_unit, mode, emission_factor, category) ==
    LET converted ==
            IF Lower(distance_unit) \in {<<"m", "i", "l", "e", "s">>, <<"m", "i">>}
            THEN Convert(distance, <<"m", "i", "l", "e", "s">>, <<"k", "m">>)
            ELSE Returned(distance)
    IN  IF converted.err # "" THEN converted
        ELSE EmissionResult("calculate_distance_based",
                            DecMul(converted.value, emission_factor),
                            NoneValue, NoneValue, NoneValue)

\* Scope3Calculator.calculate_waste_based
calculate_waste_based(waste_amount, waste_unit, waste_type, disposal_method, emission_factor, category) ==
    LET waste_tons ==
            IF Lower(waste_unit) \in {<<"k", "g">>, <<"k", "i", "l", "o", "g", "r", "a", "m", "s">>}
            THEN DecDiv(waste_amount, Dec(1000, 0))
            ELSE waste_amount
    IN  EmissionResult("calculate_waste_based",
                       DecMul(DecMul(waste_tons, emission_factor), Dec(1000, 0)),
                       NoneValue, NoneValue, NoneValue)

\* kwargs.get(key): an Optional
KwargOrNone(kwargs, key) == IF Has(kwargs, key) THEN Some(kwargs[key]) ELSE NoneValue

\* A scope-3 routing that reads kwargs["scope_3_category"] instead of
\* kwargs.get("scope_3_category", 1).
Scope3RequiringCategory(category, activity_amount, activity_unit, emission_factor, emission_factor_unit, kwargs) ==
    IF ~Has(kwargs, "scope_3_category") THEN RaisedError("KeyError", "scope_3_category")
    ELSE IF kwargs["scope_3_category"] \in {1, 2}
        THEN calculate_spend_based(activity_amount, activity_unit, emission_factor,
                                   kwargs["scope_3_category"])
    ELSE calculate_emission(activity_amount, activity_unit, emission_factor,
                            emission_factor_unit, NoneValue)

\* The `elif scope == 3` branch of GHGProtocolCalculator.calculate
Scope3(category, activity_amount, activity_unit, emission_factor, emission_factor_unit, kwargs) ==
    LET scope_3_category == Get(kwargs, "scope_3_category", 1)
    IN  IF scope_3_category \in {1, 2}
            THEN calculate_spend_based(activity_amount, activity_unit, emission_factor,
                                       scope_3_category)
        ELSE IF scope_3_category \in {4, 6, 7, 9}
            THEN calculate_distance_based(activity_amount, activity_unit, category,
                                          emission_factor, scope_3_category)
        ELSE IF scope_3_category = 5
            THEN calculate_waste_based(activity_amount, activity_unit, category,
                                       Get(kwargs, "disposal_method", "landfill"),
                                       emission_factor, scope_3_category)
        ELSE calculate_emission(activity_amount, activity_unit, emission_factor,
                                emission_factor_unit, NoneValue)

\* calculate sending all of scope 2 to the steam/heat engine
GHGCalculateSteamOnly(scope, category, activity_amount, activity_unit, emission_factor, emission_factor_unit, kwargs) ==
    IF scope = 1
        THEN calculate_emission(activity_amount, activity_unit, emission_factor,
                                emission_factor_unit, KwargOrNone(kwargs, "gas_breakdown"))
    ELSE IF scope = 2
        THEN calculate_steam_heat(activity_amount, activity_unit, emission_factor,
                                  emission_factor_unit)
    ELSE IF scope = 3
        THEN Scope3(category, activity_amount, activity_unit, emission_factor,
                    emission_factor_unit, kwargs)
    ELSE RaisedError("ValueError", "Invalid scope")

\* GHGProtocolCalculator.calculate(scope, category, activity_amount,
\* activity_unit, emission_factor, emission_factor_unit, **kwargs)
GHGCalculate(scope, category, activity_amount, activity_unit, emission_factor, emission_factor_unit, kwargs) ==
    IF scope = 1
        THEN calculate_emission(activity_amount, activity_unit, emission_factor,
                                emission_factor_unit, KwargOrNone(kwargs, "gas_breakdown"))
    ELSE IF scope = 2
        THEN IF category = "electricity"
             THEN calculate_location_based(activity_amount, emission_factor,
                                           KwargOrNone(kwargs, "gas_breakdown"))
             ELSE calculate_steam_heat(activity_amount, activity_unit, emission_factor,
                                       emission_factor_unit)
    ELSE IF scope = 3
        THEN Scope3(category, activity_amount, activity_unit, emission_factor,
                    emission_factor_unit, kwargs)
    ELSE RaisedError("ValueError", "Invalid scope")

(***************************************************************************)
(* The calls made of the calculation engine.                               *)
(***************************************************************************)
\* Activity amounts are 1, ..., MaxAmount; the values given to convert are
\* 0.5, 1.0, ..., MaxAmount / 2.
MaxAmount == 2

Amounts == {Dec(a, 0) : a \in 1..MaxAmount}

ConvertValues == {Dec(5 * a, 1) : a \in 1..MaxAmount}

\* Unit names given to convert, in the spellings callers use.
ConvertUnits ==
    {<<"k", "W", "h">>, <<"k", "w", "h">>, <<"M", "W", "h">>, <<"G", "W", "h">>, <<"T", "J">>, <<"G", "J">>, <<"b", "t", "u">>, <<"M", "M", "B", "t", "u">>, <<"t", "h", "e", "r", "m">>,
     <<"l", "i", "t", "e", "r", "s">>, <<"G", "a", "l", "l", "o", "n", "s">>, <<"c", "u", "b", "i", "c", "_", "m", "e", "t", "e", "r", "s">>,
     <<"k", "g">>, <<"K", "G">>, <<"t", "o", "n", "s">>, <<"t", "o", "n">>, <<"l", "b", "s">>, <<"l", "b">>,
     <<"k", "m">>, <<"m", "i", "l", "e", "s">>, <<"M", "i", "l", "e", "s">>, <<"w", "i", "d", "g", "e", "t", "s">>}

\* The units of the four tables, in the spellings callers use.
TableUnits ==
    {<<"k", "W", "h">>, <<"M", "W", "h">>, <<"G", "W", "h">>, <<"T", "J">>, <<"b", "t", "u">>, <<"l", "i", "t", "e", "r", "s">>, <<"G", "a", "l", "l", "o", "n", "s">>, <<"c", "u", "b", "i", "c", "_", "m", "e", "t", "e", "r", "s">>,
     <<"k", "g">>, <<"t", "o", "n", "s">>, <<"l", "b", "s">>, <<"k", "m">>, <<"M", "i", "l", "e", "s">>}

\* The pairs of units one of whose two keys is an entry of a table.
TablePairs ==
    {p \in TableUnits \X TableUnits :
        \/ InTables(ConversionKey(Lower(p[1]), Lower(p[2])))
        \/ InTables(ConversionKey(Lower(p[2]), Lower(p[1])))}

\* Values taken there and back: the values given to convert, their
\* negatives and 0.
RoundTripValues == ConvertValues \cup {DecNeg(v) : v \in ConvertValues} \cup {Dec(0, 0)}

\* Electricity and renewable amounts in kWh.
MarketKwh == {Dec(0, 0)} \cup ConvertValues \cup {Dec(1000 * a, 0) : a \in 1..MaxAmount}

\* Supplier factors in kg CO2e per kWh.
SupplierFactors == {Dec(0, 0), Dec(5, 1), Dec(233, 3)}

\* co2e_kg of a posted record: the schema admits Decimals >= 0
\* (schemas/emissions.py, line 81).
PostedKg ==
    {Dec(0, 0), Dec(1500000, 0), Dec(1234567, 3), DecDiv(Dec(1, 0), Dec(293071, 9))}
        \cup ConvertValues

ScopeValues == {-1, 0, 1, 2, 3, 4, 5}

Categories == {"electricity", "steam", "flight"}

ActivityUnits == {<<"k", "W", "h">>, <<"l", "i", "t", "e", "r", "s">>, <<"M", "i", "l", "e", "s">>, <<"k", "g">>, <<"G", "J">>, <<"U", "S", "D">>}

EmissionFactors == {Dec(5, 1), Dec(2, 0)}

EmissionFactorUnits ==
    {<<"k", "g", "_", "c", "o", "2", "e", "_", "p", "e", "r", "_", "l", "i", "t", "e", "r">>, <<"k", "g", "_", "c", "o", "2", "e", "_", "p", "e", "r", "_", "k", "w", "h">>, <<"t", "o", "n", "s", "_", "c", "o", "2", "e", "_", "p", "e", "r", "_", "m", "w", "h">>,
     <<"g", "_", "c", "o", "2", "e", "_", "p", "e", "r", "_", "k", "m">>, <<"k", "g", "_", "c", "o", "2", "e">>}

GasBreakdowns ==
    {EmptyDict,
     ("co2" :> Dec(9, 1)) @@ ("ch4" :> Dec(5, 2)) @@ ("n2o" :> Dec(5, 2))}

Scope3Categories == {0, 1, 2, 4, 5, 6, 7, 8, 9, 99}

Kwargs ==
    Merge2(Merge2(Opt("gas_breakdown", GasBreakdowns),
                  Opt("scope_3_category", Scope3Categories)),
           Opt("disposal_method", {"recycling"}))

\* UnitConverter.convert(value, from_unit, to_unit), called once
convert ==
    /\ calc = CalcIdle
    /\ \E value \in ConvertValues, from_unit \in ConvertUnits, to_unit \in ConvertUnits :
           calc' = [phase |-> "returned", op |-> "convert",
                    value |-> value, from_unit |-> from_unit, to_unit |-> to_unit,
                    result |-> Convert(value, from_unit, to_unit)]
    /\ UNCHANGED pipeVars

\* UnitConverter.convert(UnitConverter.convert(x, A, B), B, A) for a pair of
\* table units; `there` is the inner call's outcome.
convert_round_trip ==
    /\ calc = CalcIdle
    /\ \E value \in RoundTripValues, pair \in TablePairs :
           LET there == Convert(value, pair[1], pair[2])
           IN  calc' = [phase |-> "returned", op |-> "convert_round_trip",
                        value |-> value, from_unit |-> pair[1], to_unit |-> pair[2],
                        there |-> there,
                        result |-> IF there.err = ""
                                   THEN Convert(there.value, pair[2], pair[1])
                                   ELSE there]
    /\ UNCHANGED pipeVars

\* GHGProtocolCalculator().calculate(...), called once
calculate ==
    /\ calc = CalcIdle
    /\ \E scope \in ScopeValues, category \in Categories, activity_amount \in Amounts,
          activity_unit \in ActivityUnits, emission_factor \in EmissionFactors,
          emission_factor_unit \in EmissionFactorUnits, kwargs \in Kwargs :
           calc' = [phase |-> "returned", op |-> "calculate",
                    scope |-> scope, category |-> category,
                    activity_amount |-> activity_amount, activity_unit |-> activity_unit,
                    emission_factor |-> emission_factor,
                    emission_factor_unit |-> emission_factor_unit,
                    kwargs |-> kwargs,
                    result |-> GHGCalculate(scope, category, activity_amount,
                                            activity_unit, emission_factor,
                                            emission_factor_unit, kwargs)]
    /\ UNCHANGED pipeVars

\* Scope2Calculator.calculate_market_based(...), called once
market_based ==
    /\ calc = CalcIdle
    /\ \E electricity_kwh \in MarketKwh, supplier_emission_factor \in SupplierFactors,
          renewable_energy_kwh \in MarketKwh, gas_breakdown \in GasBreakdowns \cup {NoneValue} :
           calc' = [phase |-> "returned", op |-> "calculate_market_based",
                    electricity_kwh |-> electricity_kwh,
                    supplier_emission_factor |-> supplier_emission_factor,
                    renewable_energy_kwh |-> renewable_energy_kwh,
                    result |-> calculate_market_based(electricity_kwh, supplier_emission_factor,
                                                      renewable_energy_kwh, gas_breakdown)]
    /\ UNCHANGED pipeVars

\* result.co2e_tons read from the EmissionResult a call returned
read_co2e_tons ==
    /\ calc.phase = "returned"
    /\ calc.op \in {"calculate", "calculate_market_based"}
    /\ calc.result.err = ""
    /\ calc' = [phase |-> "returned", op |-> "co2e_tons", call |-> calc,
                result |-> calc.result, co2e_tons |-> co2e_tons(calc.result)]
    /\ UNCHANGED pipeVars

\* POST /emissions: create_emissions_data(emissions) (endpoints/emissions.py,
\* lines 27-52); of the record only co2e_kg takes part.
create_emissions_data ==
    /\ calc = CalcIdle
    /\ \E co2e_kg \in PostedKg :
           calc' = [phase |-> "returned", op |-> "create_emissions_data",
                    response |-> [id |-> 1,
                                  co2e_tons |-> DecDiv(co2e_kg, Dec(1000, 0)),
                                  co2e_kg |-> co2e_kg]]
    /\ UNCHANGED pipeVars

\* No pipeline runs while the engine is called directly.
InitCalc ==
    /\ raw_data = ("facilities_raw" :> <<>>)
    /\ normalized_data = None
    /\ normalization_log = <<>>
    /\ pc = "idle"
    /\ facilities = <<>>
    /\ idx = 0
    /\ totals = EmptyDict
    /\ quality_metrics = EmptyDict
    /\ error = NoError
    /\ calc = CalcIdle
    /\ other = NoOther

NextCalc ==
    \/ convert
    \/ convert_round_trip
    \/ market_based
    \/ read_co2e_tons
    \/ create_emissions_data
    \/ calculate

SpecCalc == InitCalc /\ [][NextCalc]_vars

(***************************************************************************)
(* Claims about the calculation engine (specification SpecCalc)            *)
(***************************************************************************)
Called(op) == calc.phase = "returned" /\ calc.op = op

SpecUnitCategories ==
    {{<<"k", "w", "h">>, <<"m", "w", "h">>, <<"g", "w", "h">>, <<"m", "m", "b", "t", "u">>, <<"t", "h", "e", "r", "m">>, <<"g", "j">>},
     {<<"l", "i", "t", "e", "r", "s">>, <<"g", "a", "l", "l", "o", "n", "s">>, <<"c", "u", "b", "i", "c", "_", "m", "e", "t", "e", "r", "s">>},
     {<<"k", "g">>, <<"t", "o", "n">>, <<"t", "o", "n", "s">>, <<"l", "b">>, <<"l", "b", "s">>},
     {<<"k", "m">>, <<"m", "i", "l", "e", "s">>}}

C10_CategoryPath(from_unit, to_unit) ==
    \E c \in SpecUnitCategories : Lower(from_unit) \in c /\ Lower(to_unit) \in c

C10_TablePath(from_unit, to_unit) ==
    \E t \in {ENERGY_CONVERSIONS, VOLUME_CONVERSIONS, MASS_CONVERSIONS,
              DISTANCE_CONVERSIONS} :
        \/ ConversionKey(Lower(from_unit), Lower(to_unit)) \in DOMAIN t
        \/ ConversionKey(Lower(to_unit), Lower(from_unit)) \in DOMAIN t

\* C10: UnitConverter.convert fails (with a ValueError in the code) exactly
\* when the two units differ case-insensitively and there is neither a
\* direct table entry, nor an inverse table entry, nor a category path
\* between them; in every other case it returns a value.
C10_FailsOnlyWithoutPath ==
    Called("convert") =>
        (calc.result.err # ""
            <=> /\ Lower(calc.from_unit) # Lower(calc.to_unit)
                /\ ~C10_TablePath(calc.from_unit, calc.to_unit)
                /\ ~C10_CategoryPath(calc.from_unit, calc.to_unit))

\* The relative tolerance of a round trip: 10^-5.  The independent factors
\* of the tables multiply to 0.99999933052 (liters, gallons), 0.99999799504
\* (lbs, kg) and 0.99999720514 (km, miles).
RoundTripTolerance == Dec(1, 5)

\* |a - b| <= tolerance * |b|
WithinTolerance(a, b, tolerance) ==
    DecLeq(DecAbs(DecSub(a, b)), DecMul(tolerance, DecAbs(b)))

\* C11: for every pair of units (A, B) one of whose keys is an entry of the
\* energy, volume, mass or distance table, and every value x,
\* convert(convert(x, A, B), B, A) is returned and differs from x by at most
\* the relative tolerance 10^-5, the pairs with an independent factor in
\* each direction included.
C11_RoundTripWithinTolerance ==
    Called("convert_round_trip") =>
        /\ calc.result.err = ""
        /\ WithinTolerance(calc.result.value, calc.value, RoundTripTolerance)

\* C11 witness: km to miles and back has been computed through the two
\* independent factors and came back different from the value, yet within
\* the tolerance.
C11_Witness ==
    /\ Called("convert_round_trip")
    /\ calc.from_unit = <<"k", "m">> /\ calc.to_unit = <<"M", "i", "l", "e", "s">>
    /\ calc.result.err = ""
    /\ calc.result.value # calc.value
    /\ WithinTolerance(calc.result.value, calc.value, RoundTripTolerance)

\* The engines that build an EmissionResult.
Engines ==
    {"calculate_emission", "calculate_location_based", "calculate_market_based",
     "calculate_steam_heat", "calculate_spend_based", "calculate_distance_based",
     "calculate_waste_based"}

C13_MarketBased ==
    Called("calculate_market_based") =>
        /\ calc.result.err = ""
        /\ calc.result.co2e_kg =
               DecMul(DecSub(calc.electricity_kwh, calc.renewable_energy_kwh),
                      calc.supplier_emission_factor)
        /\ calc.renewable_energy_kwh = calc.electricity_kwh =>
               calc.result.co2e_kg = Dec(0, 0)

\* C13 witness: a call with all the electricity renewable, non-zero
\* electricity and a non-zero supplier factor has returned.
C13_Witness ==
    /\ Called("calculate_market_based")
    /\ calc.renewable_energy_kwh = calc.electricity_kwh
    /\ ~DecIsZero(calc.electricity_kwh)
    /\ ~DecIsZero(calc.supplier_emission_factor)
    /\ calc.result.co2e_kg = Dec(0, 0)

\* The scope_3_category of the call made, 1 when the keyword is absent.
C14_Scope3Category ==
    IF "scope_3_category" \in DOMAIN calc.kwargs THEN calc.kwargs["scope_3_category"] ELSE 1

\* The engine the claim names for the call made (scope 1, 2 or 3).
C14_Engine ==
    IF calc.scope = 1 THEN "calculate_emission"
    ELSE IF calc.scope = 2
        THEN IF calc.category = "electricity" THEN "calculate_location_based"
             ELSE "calculate_steam_heat"
    ELSE IF C14_Scope3Category \in {1, 2} THEN "calculate_spend_based"
    ELSE IF C14_Scope3Category \in {4, 6, 7, 9} THEN "calculate_distance_based"
    ELSE IF C14_Scope3Category = 5 THEN "calculate_waste_based"
    ELSE "calculate_emission"

\* C14: calculate sends scope 1 to the activity-times-factor engine, scope 2
\* to the location-based electricity engine iff category = "electricity" and
\* otherwise to steam/heat, and scope 3 by scope_3_category (1 when absent):
\* 1 and 2 spend-based, 4, 6, 7 and 9 distance-based, 5 waste-based, every
\* other number, those outside 1..15 included, the activity-times-factor
\* formula, none of them rejected.
C14_Dispatch ==
    (Called("calculate") /\ calc.scope \in {1, 2, 3}) =>
        /\ calc.result.err = ""
        /\ calc.result.engine = C14_Engine

\* C14 witness: a scope 3 call with scope_3_category 99 has been answered by
\* the activity-times-factor engine.
C14_Witness ==
    /\ Called("calculate")
    /\ calc.scope = 3
    /\ C14_Scope3Category = 99
    /\ calc.result.err = ""
    /\ calc.result.engine = "calculate_emission"

(***************************************************************************)
(* The stages of the pipeline as whole calls, for the claims that apply a  *)
(* stage to a facility list of their own or run more than one pipeline.    *)
(***************************************************************************)
\* The loop of normalize_units from facility i on.
RECURSIVE NormalizeUnitsFrom(_, _, _)
NormalizeUnitsFrom(facs, i, log) ==
    IF i > Len(facs) THEN [facs |-> facs, log |-> log, err |-> ""]
    ELSE LET s == NormalizeFacility(facs[i], log)
         IN  IF s.err # ""
             THEN [facs |-> [facs EXCEPT ![i] = s.fac], log |-> s.log, err |-> s.err]
             ELSE NormalizeUnitsFrom([facs EXCEPT ![i] = s.fac], i + 1, s.log)

\* normalize_units of a pipeline whose raw facilities are facilities_raw
\* (lines 45-104): the stage entry, the deep copy and the loop.
NormalizeUnits(facilities_raw, log) ==
    NormalizeUnitsFrom(facilities_raw, 1,
                       log_action(log, "UNIT_NORMALIZATION", "", "start", "INFO"))

\* The loop body of fill_missing_scope_data (lines 124-217) on one facility.
FillFacility(f, log) ==
    LET s1 == EstimateScope1(f, log)
        s2 == EstimateScope2(s1.fac, s1.log)
        s3 == EstimateScope3(s2.fac, s2.log)
    IN  IF s3.err # "" THEN s3 ELSE Annualize(s3.fac, s3.log)

\* The loop of fill_missing_scope_data from facility i on.
RECURSIVE FillMissingFrom(_, _, _)
FillMissingFrom(facs, i, log) ==
    IF i > Len(facs) THEN [facs |-> facs, log |-> log, err |-> ""]
    ELSE LET s == FillFacility(facs[i], log)
         IN  IF s.err # ""
             THEN [facs |-> [facs EXCEPT ![i] = s.fac], log |-> s.log, err |-> s.err]
             ELSE FillMissingFrom([facs EXCEPT ![i] = s.fac], i + 1, s.log)

\* fill_missing_scope_data(facilities) (lines 106-219)
FillMissingScopeData(facs, log) ==
    FillMissingFrom(facs, 1, log_action(log, "MISSING_DATA", "", "start", "INFO"))

(***************************************************************************)
(* A stage applied to its own output: the first two stages of a run, and   *)
(* then the stage that has just returned called once more on the list it   *)
(* returned.                                                               *)
(***************************************************************************)
\* A stage called again has returned s; control goes to `after`.
StageAgain(s, after) ==
    /\ facilities' = s.facs
    /\ normalization_log' = s.log
    /\ error' = Raised(s.err)
    /\ pc' = IF s.err # "" THEN "raised" ELSE after
    /\ UNCHANGED <<raw_data, normalized_data, idx, totals, quality_metrics, calc, other>>

\* DataNormalizationPipeline({'facilities_raw': facilities}).normalize_units()
\* on the list normalize_units returned
normalize_units_again ==
    /\ pc = "fill_missing_scope_data"
    /\ StageAgain(NormalizeUnits(facilities, normalization_log), "normalized_twice")

\* fill_missing_scope_data(facilities) on the list it returned
fill_missing_scope_data_again ==
    /\ pc = "calculate_totals"
    /\ StageAgain(FillMissingScopeData(facilities, normalization_log), "filled_twice")

NextStages ==
    \/ normalize_units_begin
    \/ normalize_units_facility
    \/ fill_missing_scope_data_begin
    \/ estimate_scope_1
    \/ estimate_scope_2
    \/ estimate_scope_3
    \/ annualize
    \/ normalize_units_again
    \/ fill_missing_scope_data_again

SpecStages == Init /\ [][NextStages]_vars

\* The two lists have the same facilities with the same scope values and
\* estimated flags.
SameScopes(before, after) ==
    /\ Len(after) = Len(before)
    /\ \A i \in 1..Len(before) :
           \A k \in ScopeKeys \cup {"scope_1_estimated", "scope_2_estimated",
                                    "scope_3_estimated"} :
               SameField(before[i], after[i], k)

\* A stage applied to its own output, as claimed: fill_missing_scope_data
\* leaves every scope value and estimated flag as it was, and
\* normalize_units leaves the facilities as they were.
C15_SecondApplication ==
    /\ pc = "calculate_totals" /\ pc' = "filled_twice" => SameScopes(facilities, facilities')
    /\ pc = "fill_missing_scope_data" /\ pc' = "normalized_twice" => facilities' = facilities

\* C15 (as claimed): every stage is idempotent; fill_missing_scope_data
\* applied to its own output changes no scope value and no estimated flag
\* (neither estimation nor annualization happens twice), and unit
\* normalization of normalized facilities changes nothing.
C15_StagesIdempotent == [][C15_SecondApplication]_vars

(***************************************************************************)
(* Two pipelines built on the same raw_data object.  The first runs as in  *)
(* Spec; the second (`other`) takes one step per stage of its              *)
(* run_pipeline, and the steps of the two interleave freely.               *)
(***************************************************************************)
\* calculate_totals(facilities) (lines 221-317) with its log entries.
CalculateTotalsStage(facs, raw, log) ==
    LET r == CalculateTotals(facs, raw)
        log1 == log_action(log, "CALCULATION", "", "start", "INFO")
    IN  [totals |-> r.totals, err |-> r.err,
         log |-> IF r.err # "" THEN log1
                 ELSE log_action(log_action(log_action(log_action(log1,
                         "CALCULATION", "", "scope_1_total", "INFO"),
                         "CALCULATION", "", "scope_2_total", "INFO"),
                         "CALCULATION", "", "scope_3_total", "INFO"),
                         "CALCULATION", "", "total_emissions", "INFO")]

\* assess_data_quality(facilities, totals) (lines 319-371) with its log
\* entries.
AssessDataQualityStage(facs, log) ==
    LET r == AssessDataQuality(facs)
        log1 == log_action(log, "DATA_QUALITY", "", "start", "INFO")
    IN  [metrics |-> r.metrics, err |-> r.err,
         log |-> IF r.logged
                 THEN log_action(log_action(log1,
                         "DATA_QUALITY", "", "overall_quality", "INFO"),
                         "DATA_QUALITY", "", "overall_completeness", "INFO")
                 ELSE log1]

\* DataNormalizationPipeline(raw_data): the fields of a new instance
\* (lines 27-32) and the position of its run_pipeline.
NewPipeline ==
    [pc |-> "normalize_units", normalized_data |-> None, normalization_log |-> <<>>,
     facilities |-> <<>>, totals |-> EmptyDict, quality_metrics |-> EmptyDict,
     error |-> NoError]

\* A stage of the second instance has ended: raising e, or returning to
\* the position `next` of run_pipeline.
OtherAfter(o, e, next) ==
    [o EXCEPT !.pc = IF e # "" THEN "raised" ELSE next,
              !.error = IF e # "" THEN [type |-> e, at |-> o.pc] ELSE o.error]

\* normalize_units working on the list of raw_data itself: what the loop
\* writes reaches raw_data.
RawDataWrittenThrough(raw, facs) == [raw EXCEPT !["facilities_raw"] = facs]

\* raw_data after the loop of normalize_units has left the list facs: the
\* loop writes to a deep copy (line 49), so raw_data is as it was.
RawDataAfterNormalize(raw, facs) == raw

other_normalize_units ==
    /\ other.pc = "normalize_units"
    /\ LET r == NormalizeUnits(raw_data["facilities_raw"], other.normalization_log)
       IN  /\ other' = OtherAfter([other EXCEPT !.facilities = r.facs,
                                                !.normalization_log = r.log],
                                  r.err, "fill_missing_scope_data")
           /\ raw_data' = RawDataAfterNormalize(raw_data, r.facs)
    /\ UNCHANGED <<normalized_data, normalization_log, pc, facilities, idx, totals,
                   quality_metrics, error, calc>>

other_fill_missing_scope_data ==
    /\ other.pc = "fill_missing_scope_data"
    /\ LET r == FillMissingScopeData(other.facilities, other.normalization_log)
       IN  other' = OtherAfter([other EXCEPT !.facilities = r.facs,
                                             !.normalization_log = r.log],
                               r.err, "calculate_totals")
    /\ UNCHANGED <<raw_data, normalized_data, normalization_log, pc, facilities, idx,
                   totals, quality_metrics, error, calc>>

other_calculate_totals ==
    /\ other.pc = "calculate_totals"
    /\ LET r == CalculateTotalsStage(other.facilities, raw_data, other.normalization_log)
       IN  other' = OtherAfter([other EXCEPT !.totals = r.totals,
                                             !.normalization_log = r.log],
                               r.err, "assess_data_quality")
    /\ UNCHANGED <<raw_data, normalized_data, normalization_log, pc, facilities, idx,
                   totals, quality_metrics, error, calc>>

other_assess_data_quality ==
    /\ other.pc = "assess_data_quality"
    /\ LET r == AssessDataQualityStage(other.facilities, other.normalization_log)
       IN  other' = OtherAfter([other EXCEPT !.quality_metrics = r.metrics,
                                             !.normalization_log = r.log],
                               r.err, "compile")
    /\ UNCHANGED <<raw_data, normalized_data, normalization_log, pc, facilities, idx,
                   totals, quality_metrics, error, calc>>

other_run_pipeline_return ==
    /\ other.pc = "compile"
    /\ other' = [other EXCEPT !.pc = "done",
                              !.normalized_data =
                                  Compile(raw_data, other.totals, other.quality_metrics)]
    /\ UNCHANGED <<raw_data, normalized_data, normalization_log, pc, facilities, idx,
                   totals, quality_metrics, error, calc>>

\* The facilities the two instances are run on: measured, partial-year,
\* with a unit to convert, with scopes to estimate, and with a scope the
\* run fails on.
SharedFacilities ==
    MixedFacilities \cup
    { ("scope_1" :> None) @@ ("scope_2" :> None) @@ ("scope_3" :> None)
          @@ ("natural_gas_m3" :> 1000) @@ ("electricity_gwh" :> 1)
          @@ ("operational_months" :> 6) }

SharedDatasets ==
    { ("facilities_raw" :> WithIds(l)) @@ ("scope_3_raw_data" :> DefaultScope3) :
          l \in ListsUpTo(SharedFacilities, MaxFacilities) }

InitTwo ==
    /\ raw_data \in SharedDatasets
    /\ normalized_data = None
    /\ normalization_log = <<>>
    /\ pc = "normalize_units"
    /\ facilities = <<>>
    /\ idx = 0
    /\ totals = EmptyDict
    /\ quality_metrics = EmptyDict
    /\ error = NoError
    /\ calc = CalcIdle
    /\ other = NewPipeline

NextTwo ==
    \/ Next
    \/ other_normalize_units
    \/ other_fill_missing_scope_data
    \/ other_calculate_totals
    \/ other_assess_data_quality
    \/ other_run_pipeline_return

SpecTwo == InitTwo /\ [][NextTwo]_vars

\* run_pipeline of a new instance built on raw, run with nothing else
\* going on: how it ends, with what result and what log.
RunAlone(raw) ==
    LET n == NormalizeUnits(raw["facilities_raw"], <<>>)
        f == FillMissingScopeData(n.facs, n.log)
        t == CalculateTotalsStage(f.facs, raw, f.log)
        q == AssessDataQualityStage(f.facs, t.log)
        Ended(e, log) == [err |-> e, normalized_data |-> None, normalization_log |-> log]
    IN  IF n.err # "" THEN Ended(n.err, n.log)
        ELSE IF f.err # "" THEN Ended(f.err, f.log)
        ELSE IF t.err # "" THEN Ended(t.err, t.log)
        ELSE IF q.err # "" THEN Ended(q.err, q.log)
        ELSE [err |-> "", normalized_data |-> Compile(raw, t.totals, q.metrics),
              normalization_log |-> q.log]

\* A run that has ended has the outcome of the run alone: the same error
\* or the same normalized data, and the same log.
AsAlone(at, err, data, log) ==
    at \in {"done", "raised"} =>
        /\ err = RunAlone(raw_data).err
        /\ data = RunAlone(raw_data).normalized_data
        /\ log = RunAlone(raw_data).normalization_log

\* Each of the two instances, when its run has ended, has the outcome and
\* the log of a run alone.
C16_EachAsAlone ==
    /\ AsAlone(pc, error.type, normalized_data, normalization_log)
    /\ AsAlone(other.pc, other.error.type, other.normalized_data, other.normalization_log)

\* C16: no stage of run_pipeline modifies the raw_data object the pipeline
\* was built with, and of two instances built on the same raw_data object,
\* under every interleaving of their stages, each produces the normalized
\* output it produces when run alone and logs only its own entries (its log
\* is the log of the run alone).
C16_RunsIsolated == [][raw_data' = raw_data]_vars /\ []C16_EachAsAlone

\* C16 witness: both runs have ended normally on a dataset with a unit to
\* convert, the first one having begun after the second had normalized.
C16_Witness ==
    /\ pc = "done" /\ other.pc = "done"
    /\ \E i \in 1..Len(raw_data["facilities_raw"]) :
           Has(raw_data["facilities_raw"][i], "electricity_gwh")
    /\ normalized_data = other.normalized_data
    /\ Len(normalization_log) = Len(other.normalization_log)

(***************************************************************************)
(* run_pipeline called again on an instance whose run has ended.           *)
(***************************************************************************)
\* The runs of one instance are 1, ..., MaxRuns.
MaxRuns == 2

\* The runs the instance has begun: each begins with the one
\* UNIT_NORMALIZATION entry (line 47).
RunsBegun(log) == Cardinality({i \in 1..Len(log) : log[i].action = "UNIT_NORMALIZATION"})

\* pipeline.run_pipeline() once more (lines 373-413): the call begins at
\* normalize_units with the fields of the instance as the last run left
\* them; __init__ alone empties normalization_log (line 31).
run_pipeline_again ==
    /\ pc \in {"done", "raised"}
    /\ RunsBegun(normalization_log) < MaxRuns
    /\ pc' = "normalize_units"
    /\ error' = NoError
    /\ UNCHANGED <<raw_data, normalized_data, normalization_log, facilities, idx, totals,
                   quality_metrics, calc, other>>

InitRerun ==
    /\ raw_data \in SharedDatasets
    /\ normalized_data = None
    /\ normalization_log = <<>>
    /\ pc = "normalize_units"
    /\ facilities = <<>>
    /\ idx = 0
    /\ totals = EmptyDict
    /\ quality_metrics = EmptyDict
    /\ error = NoError
    /\ calc = CalcIdle
    /\ other = NoOther

NextRerun == Next \/ run_pipeline_again

SpecRerun == InitRerun /\ [][NextRerun]_vars

\* C17: the engine is deterministic and stateless: whenever a run of
\* run_pipeline has ended, on a new instance or on one that has run before,
\* what it returned (facilities, scope totals, Scope-3 breakdown, quality
\* score, completeness, estimated-data percentage) or raised and the log
\* entries of the instance (timestamps apart) are those of a run of a new
\* instance on the same raw dataset: nothing depends on an earlier run.
C17_Deterministic == AsAlone(pc, error.type, normalized_data, normalization_log)

\* C17, the part the code keeps: what a run returns or raises is that of a
\* run of a new instance on the same raw dataset.
C17_SameResult ==
    pc \in {"done", "raised"} =>
        /\ error.type = RunAlone(raw_data).err
        /\ normalized_data = RunAlone(raw_data).normalized_data

\* C17 witness: a second run on the same instance has ended normally.
C17_Witness == pc = "done" /\ RunsBegun(normalization_log) = 2

(***************************************************************************)
(* carbon_calculator.py: Scope1Calculator.calculate_total_scope1 over a    *)
(* list of sources, called directly or by calculate_full_inventory.  The   *)
(* call's state is in `calc`: the sources, the loop's position i and its   *)
(* locals total and breakdown.  Emissions are in units of 10^-8 t CO2e.    *)
(***************************************************************************)
\* Scope1Calculator.EPA_FACTORS in units of 10^-5 kg CO2e (lines 70-77)
EPA_FACTORS ==
    ("natural_gas" :> 5306) @@ ("fuel_oil_no2" :> 1021000) @@ ("diesel" :> 1021000)
        @@ ("gasoline" :> 878000) @@ ("coal_bituminous" :> 232573000)
        @@ ("propane" :> 574000)

\* GWP_FACTORS of calculate_fugitive_emissions (lines 143-148)
GWP_FACTORS ==
    ("HFC-134a" :> 1430) @@ ("R-410A" :> 2088) @@ ("R-404A" :> 3922) @@ ("R-22" :> 1810)

\* Scope1Calculator.calculate_stationary_combustion(fuel_type, amount, unit)
calculate_stationary_combustion(fuel_type, amount, unit) ==
    IF fuel_type \notin DOMAIN EPA_FACTORS
        THEN RaisedError("ValueError", "Unknown fuel type")
    ELSE Returned(amount * EPA_FACTORS[fuel_type])

\* Scope1Calculator.calculate_mobile_combustion([vehicle])
calculate_mobile_combustion(vehicle) ==
    LET fuel_type == Get(vehicle, "fuel_type", "gasoline")
        amount == Get(vehicle, "amount", 0)
    IN  IF fuel_type \in DOMAIN EPA_FACTORS THEN amount * EPA_FACTORS[fuel_type] ELSE 0

\* Scope1Calculator.calculate_fugitive_emissions([leak])
calculate_fugitive_emissions(leak) ==
    LET amount_kg == Get(leak, "amount_kg", 0)
    IN  IF Has(leak, "type") /\ leak["type"] \in DOMAIN GWP_FACTORS
        THEN amount_kg * GWP_FACTORS[leak["type"]] * 100000
        ELSE 0

\* The branches of the loop of calculate_total_scope1 (lines 177-191):
\* the emissions of one source, or the exception its calculation raises.
SourceEmissions(source) ==
    LET category == GetOrNone(source, "category")
    IN  IF category = "stationary_combustion"
            THEN IF \E k \in {"fuel_type", "amount", "unit"} : ~Has(source, k)
                 THEN RaisedError("KeyError", "source[...]")
                 ELSE calculate_stationary_combustion(source["fuel_type"], source["amount"],
                                                      source["unit"])
        ELSE IF category = "mobile_combustion"
            THEN Returned(calculate_mobile_combustion(source))
        ELSE IF category = "fugitive_emissions"
            THEN Returned(calculate_fugitive_emissions(source))
        ELSE Returned(0)

\* EmissionResult(source_id, ..., total_emissions, ...) of lines 194-206
SourceResult(source, emissions) ==
    [source_id |-> Get(source, "id", ""), scope |-> 1,
     category |-> GetOrNone(source, "category"),
     activity_data |-> Get(source, "amount", 0), total_emissions |-> emissions]

\* The loop body of calculate_total_scope1 for source i: an exception
\* leaves the call, and with it total and breakdown.
calculate_total_scope1_source ==
    /\ calc.phase = "scope1_loop"
    /\ calc.i <= Len(calc.sources)
    /\ LET source == calc.sources[calc.i]
           emissions == SourceEmissions(source)
       IN  calc' = IF emissions.err # ""
                   THEN [phase |-> "raised", op |-> calc.op, sources |-> calc.sources,
                         err |-> emissions.err, at |-> calc.i]
                   ELSE [calc EXCEPT !.i = @ + 1,
                                     !.total = @ + emissions.value,
                                     !.breakdown = Append(@, SourceResult(source, emissions.value))]
    /\ UNCHANGED pipeVars

\* return total, breakdown (line 210): to the caller, or to
\* calculate_full_inventory (line 593).
calculate_total_scope1_return ==
    /\ calc.phase = "scope1_loop"
    /\ calc.i > Len(calc.sources)
    /\ calc' = IF calc.op = "calculate_total_scope1"
               THEN [phase |-> "returned", op |-> calc.op, sources |-> calc.sources,
                     result |-> [total |-> calc.total, breakdown |-> calc.breakdown]]
               ELSE [calc EXCEPT !.phase = "scope2"]
    /\ UNCHANGED pipeVars

\* Scope2Calculator.calculate_total_scope2([]) (lines 326-335): both
\* methods sum over no records.
EmptyScope2 == [location_based |-> 0, market_based |-> 0]

\* Scope3Calculator.calculate_total_scope3({}) (lines 545-565): no category
EmptyScope3 == [total |-> 0, breakdown |-> EmptyDict]

\* calculate_full_inventory after Scope 1 (lines 595-615), called with no
\* electricity records and no Scope 3 categories.
calculate_full_inventory_return ==
    /\ calc.phase = "scope2"
    /\ calc' = [phase |-> "returned", op |-> calc.op, sources |-> calc.sources,
                result |-> [scope1 |-> [total |-> calc.total, breakdown |-> calc.breakdown],
                            scope2 |-> EmptyScope2,
                            scope3 |-> EmptyScope3,
                            grand_total |-> calc.total + EmptyScope2.market_based
                                                + EmptyScope3.total]]
    /\ UNCHANGED pipeVars

\* Lists of at most MaxSources sources.
MaxSources == 3

\* Scope 1 sources: stationary with a known and with an unknown fuel and
\* with no unit, a vehicle, a vehicle with an unknown fuel, a leak, and a
\* source of another category.
SourceRecords ==
    { ("category" :> "stationary_combustion") @@ ("fuel_type" :> "natural_gas")
          @@ ("amount" :> 1000) @@ ("unit" :> "cubic_feet"),
      ("category" :> "stationary_combustion") @@ ("fuel_type" :> "wood")
          @@ ("amount" :> 50) @@ ("unit" :> "tons"),
      ("category" :> "stationary_combustion") @@ ("fuel_type" :> "diesel")
          @@ ("amount" :> 10),
      ("category" :> "mobile_combustion") @@ ("fuel_type" :> "diesel") @@ ("amount" :> 2),
      ("category" :> "mobile_combustion") @@ ("fuel_type" :> "hydrogen") @@ ("amount" :> 2),
      ("category" :> "fugitive_emissions") @@ ("type" :> "HFC-134a") @@ ("amount_kg" :> 1),
      ("category" :> "process_emissions") @@ ("amount" :> 7) }

\* The sources of a list carry their position as id.
SourceIds == <<"S1", "S2", "S3", "S4", "S5">>

WithSourceIds(l) == [i \in 1..Len(l) |-> ("id" :> SourceIds[i]) @@ l[i]]

InitInventory ==
    /\ raw_data = ("facilities_raw" :> <<>>)
    /\ normalized_data = None
    /\ normalization_log = <<>>
    /\ pc = "idle"
    /\ facilities = <<>>
    /\ idx = 0
    /\ totals = EmptyDict
    /\ quality_metrics = EmptyDict
    /\ error = NoError
    /\ other = NoOther
    /\ \E l \in ListsUpTo(SourceRecords, MaxSources) :
       \E op \in {"calculate_total_scope1", "calculate_full_inventory"} :
           calc = [phase |-> "scope1_loop", op |-> op, sources |-> WithSourceIds(l),
                   i |-> 1, total |-> 0, breakdown |-> <<>>]

NextInventory ==
    \/ calculate_total_scope1_source
    \/ calculate_total_scope1_return
    \/ calculate_full_inventory_return

SpecInventory == InitInventory /\ [][NextInventory]_vars

\* The Scope 1 breakdown a call has handed to its caller; a call that
\* raised hands over nothing.
Scope1Breakdown ==
    IF calc.phase # "returned" THEN <<>>
    ELSE IF calc.op = "calculate_total_scope1" THEN calc.result.breakdown
    ELSE calc.result.scope1.breakdown

\* C18: a hard error aborts only the calculation of the source that
\* triggered it: when calculate_total_scope1, called directly or by
\* calculate_full_inventory, has ended, it has returned, and the emissions
\* of every source of the list whose own calculation raises nothing are in
\* the returned breakdown.
C18_BatchSurvives ==
    (calc.phase \in {"returned", "raised"} /\ calc.op \in {"calculate_total_scope1", "calculate_full_inventory"}) =>
        \A i \in 1..Len(calc.sources) :
            SourceEmissions(calc.sources[i]).err = "" =>
                /\ calc.phase = "returned"
                /\ \E j \in 1..Len(Scope1Breakdown) :
                       /\ Scope1Breakdown[j].source_id = calc.sources[i]["id"]
                       /\ Scope1Breakdown[j].total_emissions =
                              SourceEmissions(calc.sources[i]).value

\* C18, what the code does: a list none of whose sources raises is
\* returned whole, and a list with a source that raises returns nothing.
C18_AllOrNothing ==
    (calc.phase \in {"returned", "raised"} /\ calc.op \in {"calculate_total_scope1", "calculate_full_inventory"}) =>
        IF \E i \in 1..Len(calc.sources) : SourceEmissions(calc.sources[i]).err # ""
        THEN calc.phase = "raised"
        ELSE /\ calc.phase = "returned"
             /\ Len(Scope1Breakdown) = Len(calc.sources)

(***************************************************************************)
(* baseline_ml_model.py: calculate_baseline_with_ml(company_data,          *)
(* historical_data).  Monthly emissions are in thousandths of a tonne,     *)
(* returned baselines and the estimate of the model in hundredths (both    *)
(* are rounded to two decimals); intermediate values are exact fractions   *)
(* [num, den] of thousandths where the code computes in floats.            *)
(***************************************************************************)
\* CarbonBaselineMLModel.INDUSTRY_BENCHMARKS (lines 56-69)
INDUSTRY_BENCHMARKS ==
    ("manufacturing_heavy" :> 450) @@ ("manufacturing_light" :> 120)
        @@ ("energy_utilities" :> 2500) @@ ("transportation" :> 380) @@ ("retail" :> 45)
        @@ ("technology" :> 25) @@ ("financial_services" :> 15) @@ ("healthcare" :> 65)
        @@ ("hospitality" :> 85) @@ ("construction" :> 180) @@ ("agriculture" :> 220)
        @@ ("real_estate" :> 55)

\* sum([record['total_emissions'] for record in records]), by halves
RECURSIVE SumEmissions(_, _, _)
SumEmissions(records, lo, hi) ==
    IF lo > hi THEN 0
    ELSE IF lo = hi THEN records[lo]["total_emissions"]
    ELSE SumEmissions(records, lo, (lo + hi) \div 2)
             + SumEmissions(records, (lo + hi) \div 2 + 1, hi)

FracAdd(a, b) == [num |-> a.num * b.den + b.num * a.den, den |-> a.den * b.den]
FracMul(a, b) == [num |-> a.num * b.num, den |-> a.den * b.den]

\* round(x, 2) of a fraction of thousandths, in hundredths
Round2(x) == RoundDiv(x.num, x.den * 10)

\* weight_historical with the weight of the estimate
WeightHistoricalOfEstimate(months) == [num |-> 12 - months, den |-> 12]

\* weight_historical = months / 12 (line 343)
WeightHistorical(months) == [num |-> months, den |-> 12]

\* company_data.get('revenue') and company_data.get('industry') (line 376)
HasProfile(company_data) ==
    /\ Has(company_data, "revenue") /\ company_data["revenue"] # 0
    /\ Has(company_data, "industry") /\ company_data["industry"] # ""

\* calculate_baseline_with_ml; historical_data None is the empty list (both
\* are falsy, lines 322-358), ml_total is ml_result['total_emissions'] of
\* the predict call where one is made.
Baseline(company_data, historical_data, ml_total) ==
    LET months == Len(historical_data)
    IN  IF months >= 12
            THEN [baseline_emissions |->
                      Round2(FracMul([num |-> SumEmissions(historical_data, 1, 12), den |-> 12],
                                     [num |-> 12, den |-> 1])),
                  method |-> "historical_average", data_quality |-> "measured",
                  months_of_data |-> 12]
        ELSE IF months >= 6
            THEN LET historical_avg ==
                         FracMul([num |-> SumEmissions(historical_data, 1, months),
                                  den |-> months], [num |-> 12, den |-> 1])
                     weight_historical == WeightHistorical(months)
                     weight_ml == [num |-> weight_historical.den - weight_historical.num,
                                   den |-> weight_historical.den]
                     baseline == FracAdd(FracMul(historical_avg, weight_historical),
                                         FracMul([num |-> 10 * ml_total, den |-> 1], weight_ml))
                 IN  [baseline_emissions |-> Round2(baseline),
                      method |-> "hybrid_historical_ml", data_quality |-> "calculated",
                      months_of_data |-> months, ml_total |-> ml_total]
        ELSE IF months > 0
            THEN [baseline_emissions |-> ml_total, method |-> "ml_estimation",
                  data_quality |-> "estimated", months_of_data |-> months,
                  ml_total |-> ml_total]
        ELSE IF HasProfile(company_data)
            THEN [baseline_emissions |-> ml_total, method |-> "ml_estimation",
                  data_quality |-> "estimated", months_of_data |-> 0, ml_total |-> ml_total]
        ELSE LET industry == Get(company_data, "industry", "technology")
                 revenue == Get(company_data, "revenue", 1000000)
                 intensity == Get(INDUSTRY_BENCHMARKS, industry, 50)
             IN  [baseline_emissions |-> Round2([num |-> revenue * intensity, den |-> 1000]),
                  method |-> "industry_average", data_quality |-> "estimated",
                  months_of_data |-> 0]

\* Histories of 0, ..., MaxMonths monthly records.
MaxMonths == 13

\* total_emissions of a month, in thousandths of a tonne
MonthlyEmissions == {14289, 14309, 20009}

\* ml_result['total_emissions'], in hundredths of a tonne: what predict
\* returns is the forest's, any of these.
MLEstimates == {17146, 17202, 30002}

Histories ==
    {[i \in 1..n |-> [total_emissions |-> IF i % 2 = 1 THEN a ELSE b]] :
         n \in 0..MaxMonths, a \in MonthlyEmissions, b \in MonthlyEmissions}

CompanyProfiles ==
    {EmptyDict,
     ("revenue" :> 2000000) @@ ("industry" :> "technology"),
     ("revenue" :> 2500000) @@ ("industry" :> ""),
     ("revenue" :> 0) @@ ("industry" :> "retail"),
     ("industry" :> "retail"),
     ("revenue" :> 2500000)}

\* calculate_baseline_with_ml(company_data, historical_data), called once
calculate_baseline_with_ml ==
    /\ calc.phase = "called"
    /\ \E ml_total \in MLEstimates :
           calc' = [phase |-> "returned", op |-> "calculate_baseline_with_ml",
                    company_data |-> calc.company_data,
                    historical_data |-> calc.historical_data,
                    result |-> Baseline(calc.company_data, calc.historical_data, ml_total)]
    /\ UNCHANGED pipeVars

InitBaseline ==
    /\ raw_data = ("facilities_raw" :> <<>>)
    /\ normalized_data = None
    /\ normalization_log = <<>>
    /\ pc = "idle"
    /\ facilities = <<>>
    /\ idx = 0
    /\ totals = EmptyDict
    /\ quality_metrics = EmptyDict
    /\ error = NoError
    /\ other = NoOther
    /\ \E company_data \in CompanyProfiles, historical_data \in Histories :
           calc = [phase |-> "called", op |-> "calculate_baseline_with_ml",
                   company_data |-> company_data, historical_data |-> historical_data]

NextBaseline == calculate_baseline_with_ml

SpecBaseline == InitBaseline /\ [][NextBaseline]_vars

\* The method the blending policy names for n records and a profile.
PolicyMethod(n, profile) ==
    IF n >= 12 THEN "historical_average"
    ELSE IF n >= 6 THEN "hybrid_historical_ml"
    ELSE IF n >= 1 THEN "ml_estimation"
    ELSE IF profile THEN "ml_estimation"
    ELSE "industry_average"

\* The method and the value returned are the policy's: the sum of the
\* first 12 records (their average, annualized); the blend
\* (n/12) * (12 * sum / n) + (1 - n/12) * estimate, which is
\* (12 * sum + (12 - n) * estimate) / 12; the estimate; or
\* revenue / 1,000,000 * intensity with the defaults 1,000,000 and 50 (25
\* for the default industry); each rounded to two decimals.
C19_Selection ==
    calc.phase = "returned" /\ calc.op = "calculate_baseline_with_ml" =>
        LET n == Len(calc.historical_data)
            r == calc.result
            c == calc.company_data
        IN  /\ r.method = PolicyMethod(n, HasProfile(c))
            /\ r.method = "historical_average" =>
                   r.baseline_emissions = RoundDiv(SumEmissions(calc.historical_data, 1, 12), 10)
            /\ r.method = "hybrid_historical_ml" =>
                   r.baseline_emissions =
                       RoundDiv(12 * SumEmissions(calc.historical_data, 1, n)
                                    + (12 - n) * 10 * r.ml_total, 120)
            /\ r.method = "ml_estimation" => r.baseline_emissions = r.ml_total
            /\ r.method = "industry_average" =>
                   r.baseline_emissions =
                       RoundDiv(Get(c, "revenue", 1000000)
                                    * Get(INDUSTRY_BENCHMARKS, Get(c, "industry", "technology"), 50),
                                10000)

Least(a, b) == IF a <= b THEN a ELSE b
Greatest(a, b) == IF a <= b THEN b ELSE a

\* The returned blend lies within `slack` thousandths of the interval
\* from the historical average 12 * sum / n to the estimate (all three
\* multiplied by n).
BlendWithin(slack) ==
    calc.phase = "returned" /\ calc.op = "calculate_baseline_with_ml"
        /\ calc.result.method = "hybrid_historical_ml" =>
        LET n == Len(calc.historical_data)
            average == 12 * SumEmissions(calc.historical_data, 1, n)
            estimate == 10 * calc.result.ml_total * n
            returned == 10 * calc.result.baseline_emissions * n
        IN  /\ Least(average, estimate) - slack * n <= returned
            /\ returned <= Greatest(average, estimate) + slack * n

EntriesOf(log, actions) == {i \in 1..Len(log) : log[i].action \in actions}

\* Every entry with an action of `first` stands before every entry with an
\* action of `then`.
Precede(log, first, then) ==
    \A i \in EntriesOf(log, first), j \in EntriesOf(log, then) : i < j

\* The log after a step begins with the log before it, entry for entry.
LogExtended ==
    /\ Len(normalization_log') >= Len(normalization_log)
    /\ SubSeq(normalization_log', 1, Len(normalization_log)) = normalization_log

\* The entries are in stage order.
StageOrdered ==
    /\ Precede(normalization_log, {"UNIT_NORMALIZATION", "UNIT_CONVERSION"}, {"MISSING_DATA"})
    /\ Precede(normalization_log, {"ESTIMATION", "ANNUALIZATION"}, {"CALCULATION"})
    /\ Precede(normalization_log, {"CALCULATION"}, {"DATA_QUALITY"})

PerUnitFactorUnits ==
    {<<"k", "g", "_", "c", "o", "2", "e", "_", "p", "e", "r", "_", "l", "i", "t", "e", "r">>, <<"k", "g", "_", "c", "o", "2", "e", "_", "p", "e", "r", "_", "g", "a", "l", "l", "o", "n">>, <<"k", "g", "_", "c", "o", "2", "e", "_", "p", "e", "r", "_", "k", "w", "h">>,
     <<"k", "g", "_", "c", "o", "2", "e", "_", "p", "e", "r", "_", "t", "o", "n">>, <<"k", "g", "_", "c", "o", "2", "e", "_", "p", "e", "r", "_", "k", "m">>, <<"k", "g", "_", "c", "o", "2", "e">>}

\* The units callers give the activity amount in.
EngineActivityUnits ==
    {<<"l", "i", "t", "e", "r", "s">>, <<"g", "a", "l", "l", "o", "n", "s">>, <<"k", "W", "h">>, <<"t", "o", "n">>, <<"t", "o", "n", "s">>, <<"k", "g">>, <<"m", "i", "l", "e", "s">>, <<"U", "S", "D">>}

\* Gas breakdowns as callers supply them: the documented one, one whose co2
\* fraction is 0, one whose fractions sum to 0.8, one with a single key.
EngineBreakdowns ==
    {("co2" :> Dec(9, 1)) @@ ("ch4" :> Dec(5, 2)) @@ ("n2o" :> Dec(5, 2)),
     ("co2" :> Dec(0, 0)) @@ ("ch4" :> Dec(1, 0)) @@ ("n2o" :> Dec(0, 0)),
     ("co2" :> Dec(5, 1)) @@ ("ch4" :> Dec(2, 1)) @@ ("n2o" :> Dec(1, 1)),
     ("ch4" :> Dec(5, 2))}

\* gas_breakdown: None, {} or a dict of fractions
OptionalBreakdowns == {NoneValue, Some(EmptyDict)} \cup {Some(b) : b \in EngineBreakdowns}

\* Waste masses: 1, ..., MaxAmount and the same number of thousands.
WasteAmounts == Amounts \cup {Dec(1000 * a, 0) : a \in 1..MaxAmount}

WasteUnits == {<<"t", "o", "n", "s">>, <<"k", "g">>, <<"K", "G">>, <<"k", "i", "l", "o", "g", "r", "a", "m", "s">>, <<"l", "b", "s">>}

\* Scope1Calculator.calculate_emission(...), called once
call_calculate_emission ==
    /\ calc = CalcIdle
    /\ \E activity_amount \in Amounts, activity_unit \in EngineActivityUnits,
          emission_factor \in EmissionFactors, emission_factor_unit \in PerUnitFactorUnits,
          gas_breakdown \in OptionalBreakdowns :
           calc' = [phase |-> "returned", op |-> "calculate_emission",
                    activity_amount |-> activity_amount, activity_unit |-> activity_unit,
                    emission_factor |-> emission_factor,
                    emission_factor_unit |-> emission_factor_unit,
                    gas_breakdown |-> gas_breakdown,
                    result |-> calculate_emission(activity_amount, activity_unit,
                                                  emission_factor, emission_factor_unit,
                                                  gas_breakdown)]
    /\ UNCHANGED pipeVars

\* Scope2Calculator.calculate_location_based(...), called once
call_calculate_location_based ==
    /\ calc = CalcIdle
    /\ \E electricity_kwh \in MarketKwh, grid_emission_factor \in SupplierFactors,
          gas_breakdown \in OptionalBreakdowns :
           calc' = [phase |-> "returned", op |-> "calculate_location_based",
                    electricity_kwh |-> electricity_kwh,
                    grid_emission_factor |-> grid_emission_factor,
                    gas_breakdown |-> gas_breakdown,
                    result |-> calculate_location_based(electricity_kwh,
                                                        grid_emission_factor,
                                                        gas_breakdown)]
    /\ UNCHANGED pipeVars

\* Scope3Calculator.calculate_waste_based(...), called once
call_calculate_waste_based ==
    /\ calc = CalcIdle
    /\ \E waste_amount \in WasteAmounts, waste_unit \in WasteUnits,
          emission_factor \in EmissionFactors \cup SupplierFactors :
           calc' = [phase |-> "returned", op |-> "calculate_waste_based",
                    waste_amount |-> waste_amount, waste_unit |-> waste_unit,
                    emission_factor |-> emission_factor,
                    result |-> calculate_waste_based(waste_amount, waste_unit, "mixed",
                                                     "landfill", emission_factor, 5)]
    /\ UNCHANGED pipeVars

NextEngines ==
    \/ call_calculate_emission
    \/ call_calculate_location_based
    \/ call_calculate_waste_based

SpecEngines == InitCalc /\ [][NextEngines]_vars

\* The unit named after "_per_" in the factor unit of the call made.
C21_FactorActivityUnit == SplitLast(calc.emission_factor_unit, <<"_", "p", "e", "r", "_">>)

\* The activity amount of the call made expressed in the unit named after
\* "_per_", or as given when the factor unit names none or the conversion
\* fails.
C21_AmountInFactorUnits ==
    IF ~Contains(calc.emission_factor_unit, <<"_", "p", "e", "r", "_">>) THEN calc.activity_amount
    ELSE LET c == Convert(calc.activity_amount, calc.activity_unit, C21_FactorActivityUnit)
         IN  IF c.err = "" THEN c.value ELSE calc.activity_amount

\* C21: Scope1Calculator.calculate_emission returns co2e_kg = (activity
\* amount converted into the unit U named after "_per_" in the factor unit)
\* * factor for every factor unit of the form kg_co2e_per_U, whatever U is;
\* when the factor unit has no "_per_" part or the conversion to U fails, it
\* returns activity_amount * factor.
C21_AmountTimesFactor ==
    Called("calculate_emission") =>
        /\ calc.result.err = ""
        /\ calc.result.co2e_kg = DecMul(C21_AmountInFactorUnits, calc.emission_factor)

\* C21, for the factor units in which "ton" does not occur: the same
\* equation.
C21_ExceptPerTon ==
    (Called("calculate_emission") /\ ~Contains(Lower(calc.emission_factor_unit), <<"t", "o", "n">>)) =>
        /\ calc.result.err = ""
        /\ calc.result.co2e_kg = DecMul(C21_AmountInFactorUnits, calc.emission_factor)

\* C21, for the factor units in which "ton" occurs: the product times 1000.
C21_PerTonTimes1000 ==
    (Called("calculate_emission") /\ Contains(Lower(calc.emission_factor_unit), <<"t", "o", "n">>)) =>
        calc.result.co2e_kg =
            DecMul(DecMul(C21_AmountInFactorUnits, calc.emission_factor), Dec(1000, 0))

\* The waste mass of the call made in tons: a mass in kg divided by 1000.
C22_WasteTons ==
    IF Lower(calc.waste_unit) \in {<<"k", "g">>, <<"k", "i", "l", "o", "g", "r", "a", "m", "s">>}
    THEN DecDiv(calc.waste_amount, Dec(1000, 0))
    ELSE calc.waste_amount

\* C22: Scope3Calculator.calculate_waste_based returns co2e_kg =
\* waste_mass_in_tons * emission_factor, a mass in kg being first divided by
\* 1000: 1 ton of waste with factor f yields f kg CO2e.
C22_TonsTimesFactor ==
    Called("calculate_waste_based") =>
        /\ calc.result.err = ""
        /\ calc.result.co2e_kg = DecMul(C22_WasteTons, calc.emission_factor)

\* C22, what the engine returns: tons * factor * 1000.
C22_TonsTimesFactorTimes1000 ==
    Called("calculate_waste_based") =>
        calc.result.co2e_kg =
            DecMul(DecMul(C22_WasteTons, calc.emission_factor), Dec(1000, 0))

\* The call made is one of the two engines that take a gas breakdown.
C23_BreakdownCall == Called("calculate_emission") \/ Called("calculate_location_based")

\* The field of the result that holds the share of a gas.
C23_Share(gas) ==
    IF gas = "co2" THEN calc.result.co2_kg
    ELSE IF gas = "ch4" THEN calc.result.ch4_kg
    ELSE calc.result.n2o_kg

\* C23: when a gas breakdown is supplied to the Scope 1 engine or to
\* location-based Scope 2, the result has co2_kg, ch4_kg and n2o_kg equal to
\* co2e_kg * fraction for every caller-supplied fraction, a fraction of 0 and
\* fractions that do not sum to 1 included; when none is supplied co2_kg is
\* the total co2e_kg.
C23_SharesAreFractions ==
    C23_BreakdownCall =>
        IF HasBreakdown(calc.gas_breakdown)
        THEN \A gas \in DOMAIN calc.gas_breakdown[1] :
                 C23_Share(gas) = DecMul(calc.result.co2e_kg, calc.gas_breakdown[1][gas])
        ELSE calc.result.co2_kg = calc.result.co2e_kg

\* C23, for every supplied fraction but a co2 fraction of 0: the same
\* equations.
C23_ExceptZeroCo2 ==
    C23_BreakdownCall =>
        IF HasBreakdown(calc.gas_breakdown)
        THEN \A gas \in DOMAIN calc.gas_breakdown[1] :
                 (gas = "co2" => ~DecIsZero(calc.gas_breakdown[1][gas])) =>
                     C23_Share(gas) = DecMul(calc.result.co2e_kg, calc.gas_breakdown[1][gas])
        ELSE calc.result.co2_kg = calc.result.co2e_kg

(***************************************************************************)
(* Market-based Scope 2 (specification SpecCalc)                           *)
(***************************************************************************)
\* C28: market-based Scope 2 emissions are never negative: for every
\* electricity_kwh >= 0, renewable_energy_kwh >= 0 and supplier factor >= 0,
\* renewable_energy_kwh greater than electricity_kwh included,
\* calculate_market_based returns co2e_kg >= 0.
C28_MarketBasedNonNegative ==
    (/\ Called("calculate_market_based")
     /\ DecLeq(Dec(0, 0), calc.electricity_kwh)
     /\ DecLeq(Dec(0, 0), calc.renewable_energy_kwh)
     /\ DecLeq(Dec(0, 0), calc.supplier_emission_factor)) =>
        /\ calc.result.err = ""
        /\ DecLeq(Dec(0, 0), calc.result.co2e_kg)

\* C28, for the calls whose renewable amount does not exceed the
\* electricity: co2e_kg >= 0.
C28_NonNegativeWhenCovered ==
    (/\ Called("calculate_market_based")
     /\ DecLeq(calc.renewable_energy_kwh, calc.electricity_kwh)) =>
        DecLeq(Dec(0, 0), calc.result.co2e_kg)

(***************************************************************************)
(* The Scope-2 estimate on free-text addresses (specification              *)
(* SpecAddresses): run_pipeline on one facility with an address.           *)
(***************************************************************************)
\* Addresses as entered: one country, in any case; two countries; a country
\* after a town whose name holds another table name ("Busan" and "Thousand"
\* hold "usa"); no table country; the empty string.
Addresses ==
    {<<"A", "u", "s", "t", "i", "n", ",", " ", "U", "S", "A">>, <<"D", "r", "e", "s", "d", "e", "n", ",", " ", "G", "e", "r", "m", "a", "n", "y">>, <<"h", "s", "i", "n", "c", "h", "u", " ", "t", "a", "i", "w", "a", "n">>, <<"S", "E", "O", "U", "L", ",", " ", "S", "O", "U", "T", "H", " ", "K", "O", "R", "E", "A">>,
     <<"T", "a", "i", "w", "a", "n", " ", "R", "d", ",", " ", "G", "e", "r", "m", "a", "n", "y">>, <<"C", "h", "i", "n", "a", " ", "T", "o", "w", "n", ",", " ", "S", "i", "n", "g", "a", "p", "o", "r", "e">>, <<"B", "u", "s", "a", "n", ",", " ", "S", "o", "u", "t", "h", " ", "K", "o", "r", "e", "a">>,
     <<"T", "h", "o", "u", "s", "a", "n", "d", " ", "O", "a", "k", "s", ",", " ", "J", "a", "p", "a", "n">>, <<"P", "a", "r", "i", "s">>, <<>>}

AddressFacilities ==
    Merge2({"scope_1" :> 10000},
    Merge2(Opt("scope_2", {None, 5000}),
    Merge2(Opt("scope_3", {None, 2000}),
    Merge2(Opt("electricity_kwh", {None, 0, 100000, 123456}),
    Merge2(Opt("address", Addresses), Opt("operational_months", {6}))))))

AddressDatasets ==
    { ("facilities_raw" :> WithIds(<<f>>)) @@ ("scope_3_raw_data" :> DefaultScope3) :
          f \in AddressFacilities }

InitAddresses ==
    /\ raw_data \in AddressDatasets
    /\ normalized_data = None
    /\ normalization_log = <<>>
    /\ pc = "normalize_units"
    /\ facilities = <<>>
    /\ idx = 0
    /\ totals = EmptyDict
    /\ quality_metrics = EmptyDict
    /\ error = NoError
    /\ calc = CalcIdle
    /\ other = NoOther

SpecAddresses == InitAddresses /\ [][Next]_vars

\* The table entries whose name occurs in the address as a case-insensitive
\* substring.
C24_Occurring(address) ==
    {i \in 1..Len(grid_factors) : Contains(Lower(address), Lower(grid_factors[i][1]))}

C24_IsLetter(c) ==
    LowerChar(c) \in {"a","b","c","d","e","f","g","h","i","j","k","l","m",
                      "n","o","p","q","r","s","t","u","v","w","x","y","z"}

\* The table entries the address names: the name occurs, in any case, as a
\* word of its own, with no letter right before or right after it.
C24_Named(address) ==
    {i \in 1..Len(grid_factors) :
        LET name == Lower(grid_factors[i][1])
            a == Lower(address)
        IN  \E k \in 0..(Len(a) - Len(name)) :
                /\ SubSeq(a, k + 1, k + Len(name)) = name
                /\ k >= 1 => ~C24_IsLetter(a[k])
                /\ k + Len(name) < Len(a) => ~C24_IsLetter(a[k + Len(name) + 1])}

\* The grid factor of the claim, in millionths: that of the first occurring
\* entry in table order, the US average when none occurs.
C24_Factor(address) ==
    IF C24_Occurring(address) = {} THEN 389
    ELSE grid_factors[CHOOSE i \in C24_Occurring(address) :
                         \A j \in C24_Occurring(address) : i <= j][2]

\* The facility the Scope-2 block is about to act on lacks scope_2 and has
\* an electricity reading.
C24_Applies ==
    /\ pc = "estimate_scope_2"
    /\ GetOrNone(facilities[idx], "scope_2") = None
    /\ Truthy(GetOrNone(facilities[idx], "electricity_kwh"))

\* The Scope-2 block sets scope_2 to round(electricity_kwh * ef, 2), flagged
\* as estimated, ef being the factor of the first occurring table entry.
C24_EstimateStep ==
    C24_Applies =>
        LET f == facilities[idx]
            g == facilities'[idx]
        IN  /\ g["scope_2"] = RoundDiv(f["electricity_kwh"] * C24_Factor(Get(f, "address", <<>>)),
                                       10000)
            /\ g["scope_2_estimated"] = TRUE

\* An address that names exactly one table country gets that country's
\* factor.
C24_NamedCountryStep ==
    C24_Applies =>
        LET f == facilities[idx]
            g == facilities'[idx]
            named == C24_Named(Get(f, "address", <<>>))
        IN  \A i \in named :
                named = {i} =>
                    g["scope_2"] = RoundDiv(f["electricity_kwh"] * grid_factors[i][2], 10000)

\* An address in which exactly one table name occurs gets that entry's
\* factor.
C24_OneOccurringStep ==
    C24_Applies =>
        LET f == facilities[idx]
            g == facilities'[idx]
            occurring == C24_Occurring(Get(f, "address", <<>>))
        IN  \A i \in occurring :
                occurring = {i} =>
                    g["scope_2"] = RoundDiv(f["electricity_kwh"] * grid_factors[i][2], 10000)

C25_Operand(f, k) == Get(f, k, 0)

\* The Scope-3 block acting on facility idx, as claimed: a missing scope_3
\* becomes round(0.45 * (scope_1 + scope_2), 2), flagged as estimated, from
\* the scope_1 and scope_2 the facility holds at that point (after their
\* estimation blocks, before the annualization block), whichever scopes
\* were missing.
C25_EstimateStep ==
    (pc = "estimate_scope_3" /\ GetOrNone(facilities[idx], "scope_3") = None) =>
        LET f == facilities[idx]
            g == facilities'[idx]
            scope_1 == IF C25_Operand(f, "scope_1") = None THEN 0 ELSE C25_Operand(f, "scope_1")
            scope_2 == IF C25_Operand(f, "scope_2") = None THEN 0 ELSE C25_Operand(f, "scope_2")
        IN  /\ pc' = "annualize"
            /\ IsNumber(g, "scope_3")
            /\ g["scope_3"] = RoundDiv((scope_1 + scope_2) * 45, 100)
            /\ Get(g, "scope_3_estimated", FALSE) = TRUE

\* C25: when a facility's scope_3 is missing, it is estimated as
\* 0.45 * (scope_1 + scope_2), rounded to 2 decimals, from scope_1 and
\* scope_2 as they stand after their own estimation step and before
\* annualization, for every combination of missing scopes.
C25_Scope3FromEstimates == [][C25_EstimateStep]_vars

\* C25, for the facilities whose scope_2 is a number or absent when the
\* Scope-3 block is reached: the same estimate.
C25_WhenScope2NotNone ==
    [][(pc = "estimate_scope_3" /\ C25_Operand(facilities[idx], "scope_2") # None)
           => C25_EstimateStep]_vars

\* The UNIT_CONVERSION entries of the log that name facility i and field k.
C26_Entries(i, k) ==
    {j \in 1..Len(normalization_log) :
        /\ normalization_log[j].action = "UNIT_CONVERSION"
        /\ normalization_log[j].fac = RawFacility(i)["facility_id"]
        /\ normalization_log[j].what = k}

\* The fields of raw facility i that normalize_units rewrites or removes.
C26_Rewritten(i) ==
    (DOMAIN RawFacility(i) \cap SourceUnitKeys)
        \cup (IF NestedTherms(RawFacility(i)) THEN {"natural_gas"} ELSE {})

\* The UNIT_CONVERSION entries of the log that name facility i.
C26_AllEntries(i) ==
    {j \in 1..Len(normalization_log) :
        /\ normalization_log[j].action = "UNIT_CONVERSION"
        /\ normalization_log[j].fac = RawFacility(i)["facility_id"]}

\* C26: every conversion performed by normalize_units is logged: for every
\* facility field that the stage rewrites or removes (electricity_mwh,
\* electricity_gwh, natural_gas_m3, natural_gas_mmbtu and a nested
\* natural_gas record), exactly one entry naming that facility is appended,
\* so the number of conversion entries equals the number of rewritten
\* fields.
C26_EveryConversionLogged ==
    AfterNormalize =>
        \A i \in 1..Len(facilities) :
            /\ \A k \in C26_Rewritten(i) : Cardinality(C26_Entries(i, k)) = 1
            /\ Cardinality(C26_AllEntries(i)) = Cardinality(C26_Rewritten(i))

\* C26, for the four flat unit fields only: one entry for each of them that
\* the raw facility carries, and no other conversion entry.
C26_FlatFieldsLogged ==
    AfterNormalize =>
        \A i \in 1..Len(facilities) :
            /\ \A k \in DOMAIN RawFacility(i) \cap SourceUnitKeys :
                   Cardinality(C26_Entries(i, k)) = 1
            /\ Cardinality(C26_AllEntries(i)) =
                   Cardinality(DOMAIN RawFacility(i) \cap SourceUnitKeys)

\* calculate_totals has returned its totals.
C29_AfterTotals == pc \in {"assess_data_quality", "compile", "done"}

\* C29: when the raw dataset supplies no Scope-3 category entries
\* (scope_3_raw_data absent or empty), the company scope_3_total equals the
\* sum of the facilities' scope_3 values computed in the same
\* calculate_totals call.
C29_FacilityScope3Kept ==
    (C29_AfterTotals /\ DOMAIN Scope3Data(raw_data) = {}) =>
        totals.scope_3_total = SumScope(facilities, "scope_3", 1).sum

\* C29, what calculate_totals returns without category entries: a
\* scope_3_total of 0 and an empty breakdown.
C29_ZeroWithoutCategories ==
    (C29_AfterTotals /\ DOMAIN Scope3Data(raw_data) = {}) =>
        /\ totals.scope_3_total = 0
        /\ DOMAIN totals.scope_3_breakdown = {}

\* operational_months of facility f is a number m with 0 < m < 12.
C30_PartialYear(f) ==
    LET m == GetOrNone(f, "operational_months")
    IN  m # None /\ 0 < m /\ m < 12

\* The annualization block acting on facility idx, as claimed: it scales
\* the facility if and only if 0 < operational_months < 12; with 0, None or
\* no such field the facility is left as it is and nothing is raised; and
\* no scope value that was >= 0 is negative afterwards.
C30_AnnualizeStep ==
    pc = "annualize" =>
        LET f == facilities[idx]
            g == facilities'[idx]
        IN  /\ C30_PartialYear(f) <=> (g # f \/ pc' = "raised")
            /\ ~Truthy(GetOrNone(f, "operational_months")) => (g = f /\ pc' # "raised")
            /\ \A k \in ScopeKeys :
                   (IsNumber(f, k) /\ f[k] >= 0 /\ IsNumber(g, k)) => g[k] >= 0

\* C30: partial-year annualization is applied to a facility if and only if
\* 0 < operational_months < 12: a facility whose operational_months is 0,
\* None or absent is left un-annualized and no division by zero occurs, and
\* no value of operational_months can turn non-negative scope values into
\* negative ones.
C30_AnnualizedIffPartialYear == [][C30_AnnualizeStep]_vars

\* C30, for the months that are not negative: the same.
C30_UnlessNegativeMonths ==
    [][(pc = "annualize" /\ Get(facilities[idx], "operational_months", 0) \notin (-12)..(-1))
           => C30_AnnualizeStep]_vars

(***************************************************************************)
(* Reporting periods (specification SpecRecords): the validator of the     *)
(* EmissionsDataBase schema and the CHECK constraints of the               *)
(* emission_data_sources table.  A date is a day number.                   *)
(***************************************************************************)
\* The last day of the periods tried.
MaxDay == 6

Days == 1..MaxDay

\* A nullable column without a value.
NULL == None

\* EmissionsDataBase.validate_period(cls, v, values): v is
\* reporting_period_end, and reporting_period_start, declared before it, is
\* in `values`.
validate_period(v, values) ==
    IF Has(values, "reporting_period_start") /\ v < values["reporting_period_start"]
    THEN RaisedError("ValueError", "reporting_period_end must be after reporting_period_start")
    ELSE Returned(v)

\* CheckConstraint('reporting_period_end > reporting_period_start', name='valid_period')
valid_period(row) == row.reporting_period_end > row.reporting_period_start

\* CheckConstraint('scope IN (1, 2, 3)', name='valid_scope')
valid_scope(row) == row.scope \in {1, 2, 3}

\* CheckConstraint('scope_3_category IS NULL OR scope_3_category BETWEEN 1 AND 15')
valid_scope_3_category(row) ==
    row.scope_3_category = NULL \/ (row.scope_3_category >= 1 /\ row.scope_3_category <= 15)

\* CheckConstraint('data_quality_score IS NULL OR data_quality_score BETWEEN 1 AND 5')
valid_quality_score(row) ==
    row.data_quality_score = NULL \/ (row.data_quality_score >= 1 /\ row.data_quality_score <= 5)

\* An EmissionsDataCreate record is validated; of its fields the two dates
\* take part.
validate_emissions_data ==
    /\ calc = CalcIdle
    /\ \E reporting_period_start \in Days, reporting_period_end \in Days :
           calc' = [phase |-> "returned", op |-> "validate_period",
                    reporting_period_start |-> reporting_period_start,
                    reporting_period_end |-> reporting_period_end,
                    result |-> validate_period(reporting_period_end,
                                   "reporting_period_start" :> reporting_period_start)]
    /\ UNCHANGED pipeVars

\* A row is inserted into emission_data_sources: the table's CHECK
\* constraints decide.
insert_emission_data_source ==
    /\ calc = CalcIdle
    /\ \E scope \in {0, 1, 3, 4}, scope_3_category \in {NULL, 0, 1, 15, 16},
          data_quality_score \in {NULL, 0, 5},
          reporting_period_start \in Days, reporting_period_end \in Days :
           LET row == [scope |-> scope, scope_3_category |-> scope_3_category,
                       data_quality_score |-> data_quality_score,
                       reporting_period_start |-> reporting_period_start,
                       reporting_period_end |-> reporting_period_end]
           IN  calc' = [phase |-> "returned", op |-> "insert_emission_data_source",
                        row |-> row,
                        result |-> IF /\ valid_scope(row)
                                      /\ valid_scope_3_category(row)
                                      /\ valid_period(row)
                                      /\ valid_quality_score(row)
                                   THEN Returned(row)
                                   ELSE RaisedError("IntegrityError", "check constraint")]
    /\ UNCHANGED pipeVars

NextRecords ==
    \/ validate_emissions_data
    \/ insert_emission_data_source

SpecRecords == InitCalc /\ [][NextRecords]_vars

\* C27: every record that passes validation has its period end strictly
\* after its period start: the EmissionsDataBase validator rejects every
\* record with reporting_period_end <= reporting_period_start, in agreement
\* with the database check reporting_period_end > reporting_period_start.
C27_EndAfterStart ==
    Called("validate_period") =>
        /\ calc.result.err = "" => calc.reporting_period_end > calc.reporting_period_start
        /\ calc.result.err = "" <=>
               valid_period([reporting_period_end |-> calc.reporting_period_end,
                             reporting_period_start |-> calc.reporting_period_start])

\* C27, what the validator ensures: the end is not before the start.
C27_EndNotBeforeStart ==
    Called("validate_period") =>
        (calc.result.err = "" <=> calc.reporting_period_end >= calc.reporting_period_start)

\* C27, the table: every row inserted has its end after its start.
C27_RowsEndAfterStart ==
    (Called("insert_emission_data_source") /\ calc.result.err = "") =>
        calc.row.reporting_period_end > calc.row.reporting_period_start

====
